---- MODULE Spec2Model ----
(***************************************************************************)
(* A model of the job orchestration core of TianGong-AI-Unstructure-Serve: *)
(*   - the GPU scheduler (src/services/gpu_scheduler.py),                  *)
(*   - the two-stage parse / vision / merge pipeline                       *)
(*     (src/services/two_stage_pipeline.py),                               *)
(*   - the single-stage runner (src/services/mineru_task_runner.py and     *)
(*     src/services/tasks/mineru_tasks.py),                                *)
(*   - the parser-server round robin (src/services/mineru_service_full.py) *)
(*     and the provider fallback (src/services/vision_service.py).         *)
(* Each component has its own specification over the shared variables; a   *)
(* component that a specification does not exercise stays in its initial   *)
(* state.                                                                  *)
(***************************************************************************)
EXTENDS Integers, Sequences, FiniteSets, TLC

(***************************************************************************)
(* Bounds of the model.                                                    *)
(***************************************************************************)
NumGPUs == 2
MaxTasks == 3
MaxWatchTasks == 2
MaxItems == 3

(***************************************************************************)
(* Program constants.                                                      *)
(***************************************************************************)
DefaultHardTimeout == 600

VARIABLES
  \* ---- GPU scheduler -------------------------------------------------
  load,       \* the workload offered: how many submits, with which pipelines
  gpuCount,   \* number of executors built from GPU_IDS
  env,        \* the *_HARD_TIMEOUT_SECONDS environment (-1: unset)
  pending,    \* _GPUExecutor.pending, per GPU
  lock,       \* GPUScheduler._lock: 0 when free, else the submitting task
  tpc,        \* where each submit / task is
  tgpu,       \* the executor _pick_executor returned for the task
  tpipe,      \* the pipeline argument of submit
  fut,        \* the Future of the task
  child,      \* the watchdog child process of the task
  msg,        \* what the child put on result_queue
  termSent,   \* proc.terminate() was called on the child
  queue,      \* per executor: work items accepted by pool.submit, FIFO
  running,    \* per executor: the task its single worker is running (0: idle)
  \* ---- two-stage pipeline (one job) ----------------------------------
  tsIn,       \* what was submitted: the document, the options, the paths
  tsStage,    \* which task of the workflow is next, or the terminal state
  tsCause,    \* the task that raised, when the job failed
  tsFs,       \* the paths that exist on disk
  tsPayload,  \* the stage-1 result returned by parse_task
  tsVision,   \* the chord header: one vision task per image job
  tsMergeCalls, \* the invocations of merge_task, with their arguments
  tsResult,   \* the "result" list of the payload returned by merge_task
  tsBackend,  \* the result backend: task id -> state and stored value
  tsResponse, \* parse_task's call of parse_doc: what do_parse did, and the
              \* response parse_doc gave back
  tsSlot,     \* the task that occupies the slot of a worker running one task
              \* at a time on all four queues
  \* ---- single-stage job (one upload) --------------------------------
  rnIn,       \* the request: file extension, save_to_minio, credentials,
              \* prefix, priority, the task used
  rnQueue,    \* the queue the task message was published to ("": none)
  rnPrefix,   \* minio_prefix_value
  rnPc,       \* where the request / the task is
  rnFs,       \* the paths that exist on disk
  rnCleanup,  \* cleanup_paths of run_mineru_local_job
  rnProcessing, \* processing_path: the upload itself or the converted PDF
  rnMinio,    \* minio_context is set
  rnBody,     \* how the body of run_mineru_local_job ended
  rnExit,     \* the return or exception currently on its way out of the task
  rnMissed,   \* the cleanup paths whose unlink raised FileNotFoundError
  rnOutcome,  \* what the client sees: an HTTP error or the task's final state
  rnOps,      \* the calls the job has made, in order: to the object store
              \* (ensure_bucket, clear_prefix, upload_bundle, upload_meta)
              \* and to the GPU scheduler (submit)
  \* ---- one task message on the broker, and its status endpoint --------
  ctName,     \* the name the task is registered under
  ctMsg,      \* the message: "queued", "unacked" (delivered to a worker and
              \* not yet acknowledged), "gone" (acknowledged, removed)
  ctWorker,   \* a worker process is executing the task
  ctState,    \* AsyncResult.state in the result backend
  ctInfo,     \* AsyncResult.info: the return value or the exception ("": empty)
  ctRuns,     \* how many times the message was delivered to a worker
  ctPoll,     \* the last answer of the task-status endpoint
  \* ---- one bucket/prefix of the object store, two uploading jobs ------
  osStore,    \* per object name under prefix/: 0 when absent, else the job
              \* whose data the object holds
  osJob,      \* per job: its PDF's page count, whether it has a meta string,
              \* where it is, the objects clear_prefix listed and has yet to
              \* remove, the next page to upload, and whether it ran alone
  osLast,     \* the job that ended last (0: none)
  \* ---- the chunks of one parse, from parser output to result ----------
  ckIn,       \* the parser's content list, chunk_type, and the code path
  ckPayload,  \* payload["result"] of the scheduler's future
  ckItems,    \* the items of the response
  ckPc,       \* the step that is next
  ckJson,     \* the entries of parsed.json in the object store
  \* ---- the parser-server round robin of one process -------------------
  suCache,    \* _SERVER_URL_CACHE: the list the cycle was built from
  suPos,      \* _SERVER_URL_CYCLE: the index in suCache of the element
              \* next() gives (0: the cycle is None)
  suLock,     \* _SERVER_URL_CYCLE_LOCK: 0 when free, else the thread
  suThread,   \* per thread: where its call of _next_server_url is, and the
              \* list it presents
  suLog,      \* the dispatches that got their URL, in order
  \* ---- one call of vision_completion ----------------------------------
  vcIn,       \* the provider chosen, the providers with credentials, and
              \* what a call of each provider does
  vcOut,      \* the providers called, in order, and how the call ended
  \* ---- one image at the file-size filter of _build_image_jobs ---------
  sfIn,       \* the size of the file in bytes, and whether the item has a
              \* caption or a footnote
  sfOut       \* what the filter did: "skip" (continue) or "pass"

schedVars == <<load, gpuCount, env, pending, lock, tpc, tgpu, tpipe, fut, child, msg,
               termSent, queue, running>>

tsVars == <<tsIn, tsStage, tsCause, tsFs, tsPayload, tsVision, tsMergeCalls, tsResult,
            tsBackend, tsResponse>>

runVars == <<rnIn, rnOps, rnQueue, rnPrefix, rnPc, rnFs, rnCleanup, rnProcessing, rnMinio, rnBody,
             rnExit, rnMissed, rnOutcome>>

ctVars == <<ctName, ctMsg, ctWorker, ctState, ctInfo, ctRuns, ctPoll>>

osVars == <<osStore, osJob, osLast>>

ckVars == <<ckIn, ckPayload, ckItems, ckPc, ckJson>>

\* the worker slot: taken and released by the worker, never by a task body;
\* the parser-server round robin; a call of vision_completion; the file-size
\* filter
slotVars == <<tsSlot, suCache, suPos, suLock, suThread, suLog, vcIn, vcOut, sfIn, sfOut>>

suVars == <<suCache, suPos, suLock, suThread, suLog>>

vars == <<schedVars, tsVars, runVars, ctVars, osVars, ckVars, slotVars>>

\* what a step of the scheduler leaves alone
notSched == <<tsVars, runVars, ctVars, osVars, ckVars, slotVars>>

\* what a step of the two-stage pipeline leaves alone
notTwoStage == <<schedVars, runVars, ctVars, osVars, ckVars, slotVars>>

\* what a step of the single-stage job leaves alone
notRunner == <<schedVars, tsVars, ctVars, osVars, ckVars, slotVars>>

\* what a step of the broker, a worker or the status endpoint leaves alone
notCelery == <<schedVars, tsVars, runVars, osVars, ckVars, slotVars>>

\* what a step of an upload leaves alone
notStore == <<schedVars, tsVars, runVars, ctVars, ckVars, slotVars>>

\* what a step from parser output to result leaves alone
notChunks == <<schedVars, tsVars, runVars, ctVars, osVars, slotVars>>

\* the status endpoint has not answered
NoAnswer == [backend |-> "", http |-> 0, state |-> "", result |-> FALSE, error |-> ""]

\* no document has been parsed
\* no thread is inside _next_server_url and no cycle was built
UrlsAtRest ==
  /\ suCache = <<>>
  /\ suPos = 0
  /\ suLock = 0
  /\ suThread = <<>>
  /\ suLog = <<>>

VisionAtRest ==
  /\ vcIn = <<>>
  /\ vcOut = <<>>

SizeFilterAtRest ==
  /\ sfIn = <<>>
  /\ sfOut = ""

ChunksAtRest ==
  /\ ckIn = [doc |-> <<>>, chunk_type |-> FALSE, path |-> ""]
  /\ ckPayload = <<>>
  /\ ckItems = <<>>
  /\ ckPc = "none"
  /\ ckJson = <<>>

\* no upload has begun
StoreAtRest ==
  /\ osStore = <<>>
  /\ osJob = <<>>
  /\ osLast = 0

\* no task message has been published
CeleryAtRest ==
  /\ ctName = ""
  /\ ctMsg = ""
  /\ ctWorker = FALSE
  /\ ctState = ""
  /\ ctInfo = ""
  /\ ctRuns = 0
  /\ ctPoll = NoAnswer

\* no single-stage request has arrived
RunnerAtRest ==
  /\ rnIn = [ext |-> "", save_to_minio |-> FALSE, credentials |-> FALSE, prefix |-> "",
             priority |-> "", task |-> ""]
  /\ rnQueue = ""
  /\ rnPrefix = ""
  /\ rnPc = "none"
  /\ rnFs = {}
  /\ rnCleanup = {}
  /\ rnProcessing = ""
  /\ rnMinio = FALSE
  /\ rnBody = ""
  /\ rnExit = ""
  /\ rnMissed = {}
  /\ rnOutcome = ""
  /\ rnOps = <<>>

\* no two-stage job has been submitted
TwoStageAtRest ==
  /\ tsIn = [doc |-> <<>>, chunk_type |-> FALSE, converted |-> FALSE, priority |-> ""]
  /\ tsStage = "none"
  /\ tsCause = ""
  /\ tsFs = {}
  /\ tsPayload = [workspace |-> "", upload_workspace |-> "", extra_cleanup |-> {},
                  content_list |-> <<>>, image_jobs |-> <<>>, chunk_type |-> FALSE]
  /\ tsVision = <<>>
  /\ tsMergeCalls = <<>>
  /\ tsResult = <<>>
  /\ tsBackend = <<>>
  /\ tsResponse = <<>>
  /\ tsSlot = [task |-> "", i |-> 0]

(***************************************************************************)
(* GPU scheduler                                                           *)
(***************************************************************************)
Tasks == 1..(IF MaxTasks >= MaxWatchTasks THEN MaxTasks ELSE MaxWatchTasks)
GPUSlots == 1..NumGPUs
GPUs == 1..gpuCount
Pipelines == {"default", "sci", "images"}
Unset == -1

EnvConfigs ==
  { [global |-> Unset, sci |-> Unset, images |-> Unset, default |-> Unset],
    [global |-> 30, sci |-> 90, images |-> Unset, default |-> 5] }

\* _worker_process_file, "Resolve hard timeout"
HardTimeoutGlobalOnly(e, pipeline) ==
  IF e.global = Unset THEN DefaultHardTimeout ELSE e.global

HardTimeout(e, pipeline) ==
  LET global_default == IF e.global = Unset THEN DefaultHardTimeout ELSE e.global
  IN  IF pipeline = "sci"
        THEN IF e.sci = Unset THEN global_default ELSE e.sci
      ELSE IF pipeline = "images"
        THEN IF e.images = Unset THEN global_default ELSE e.images
      ELSE IF e.default = Unset THEN global_default ELSE e.default

NoFuture == [kind |-> "none", text |-> "", seconds |-> 0, pipeline |-> ""]
PendingFuture == [kind |-> "pending", text |-> "", seconds |-> 0, pipeline |-> ""]
PayloadResult == [kind |-> "payload", text |-> "", seconds |-> 0, pipeline |-> ""]
\* RuntimeError(msg.get("error", "Unknown parse error"))
ParseError == [kind |-> "RuntimeError", text |-> "parse error", seconds |-> 0,
               pipeline |-> ""]
\* TimeoutError(f"Parse hard timeout after {hard_timeout}s (pipeline={pipeline})")
HardTimeoutError(seconds, pipeline) ==
  [kind |-> "TimeoutError", text |-> "Parse hard timeout after",
   seconds |-> seconds, pipeline |-> pipeline]

Resolved(t) == fut[t].kind \in {"payload", "RuntimeError", "TimeoutError"}

\* _pick_executor taking the first executor whatever the counters are
FirstAlways(p, n) == 1

\* min(self._executors, key=lambda e: e.pending): the first minimal executor
FirstMin(p, n) ==
  CHOOSE g \in 1..n : /\ \A h \in 1..n : p[g] <= p[h]
                      /\ \A h \in 1..(g-1) : p[g] < p[h]

\* "with self._lock": the lock can be taken
LockIgnored == TRUE

LockFree == lock = 0

NoEnv == [global |-> Unset, sci |-> Unset, images |-> Unset, default |-> Unset]

\* GPUScheduler.__init__: one executor per GPU id, pending = 0, a free lock
SchedulerCreated ==
  /\ pending = [g \in GPUSlots |-> 0]
  /\ lock = 0
  /\ tpc = [t \in Tasks |-> "idle"]
  /\ tgpu = [t \in Tasks |-> 0]
  /\ tpipe = [t \in Tasks |-> "default"]
  /\ fut = [t \in Tasks |-> NoFuture]
  /\ child = [t \in Tasks |-> "none"]
  /\ msg = [t \in Tasks |-> "none"]
  /\ termSent = [t \in Tasks |-> FALSE]
  /\ queue = [g \in GPUSlots |-> <<>>]
  \* one idle worker process per executor
  /\ running = [g \in GPUSlots |-> 0]

\* a scheduler over 1..NumGPUs GPUs with no timeout variable set, taking
\* MaxTasks submits on the default pipeline
SchedInit ==
  /\ load = [tasks |-> MaxTasks, pipelines |-> {"default"}]
  /\ gpuCount \in 1..NumGPUs
  /\ env = NoEnv
  /\ SchedulerCreated
  /\ TwoStageAtRest
  /\ RunnerAtRest
  /\ CeleryAtRest
  /\ StoreAtRest
  /\ ChunksAtRest
  /\ UrlsAtRest
  /\ VisionAtRest
  /\ SizeFilterAtRest

\* the default single-GPU scheduler (GPU_IDS unset) under each timeout
\* environment, taking MaxWatchTasks submits on any pipeline
WatchdogInit ==
  /\ load = [tasks |-> MaxWatchTasks, pipelines |-> Pipelines]
  /\ gpuCount = 1
  /\ env \in EnvConfigs
  /\ SchedulerCreated
  /\ TwoStageAtRest
  /\ RunnerAtRest
  /\ CeleryAtRest
  /\ StoreAtRest
  /\ ChunksAtRest
  /\ UrlsAtRest
  /\ VisionAtRest
  /\ SizeFilterAtRest

\* a scheduler over 1..NumGPUs GPUs with no timeout variable set, taking
\* MaxWatchTasks submits on the default pipeline
QueueInit ==
  /\ load = [tasks |-> MaxWatchTasks, pipelines |-> {"default"}]
  /\ gpuCount \in 1..NumGPUs
  /\ env = NoEnv
  /\ SchedulerCreated
  /\ TwoStageAtRest
  /\ RunnerAtRest
  /\ CeleryAtRest
  /\ StoreAtRest
  /\ ChunksAtRest
  /\ UrlsAtRest
  /\ VisionAtRest
  /\ SizeFilterAtRest

\* submit -> _pick_executor: take the lock and select the least loaded executor.
\* Submits are numbered in the order in which they take the lock.
PickSelect(t, p) ==
  /\ t <= load.tasks
  /\ p \in load.pipelines
  /\ tpc[t] = "idle"
  /\ \A u \in 1..(t-1) : tpc[u] # "idle"
  /\ LockFree
  /\ lock' = t
  /\ tgpu' = [tgpu EXCEPT ![t] = FirstMin(pending, gpuCount)]
  /\ tpipe' = [tpipe EXCEPT ![t] = p]
  /\ tpc' = [tpc EXCEPT ![t] = "selected"]
  /\ UNCHANGED notSched
  /\ UNCHANGED <<load, gpuCount, env, pending, fut, child, msg, termSent, queue, running>>

\* _pick_executor: exec_.pending += 1, then leave the "with" block
PickIncrement(t) ==
  /\ tpc[t] = "selected"
  /\ pending' = [pending EXCEPT ![tgpu[t]] = @ + 1]
  /\ lock' = IF lock = t THEN 0 ELSE lock
  /\ tpc' = [tpc EXCEPT ![t] = "picked"]
  /\ UNCHANGED notSched
  /\ UNCHANGED <<load, gpuCount, env, tgpu, tpipe, fut, child, msg, termSent, queue, running>>

\* submit: exec_.pool.submit(...) and fut.add_done_callback(_done_cb)
PoolSubmit(t) ==
  /\ tpc[t] = "picked"
  /\ queue' = [queue EXCEPT ![tgpu[t]] = Append(@, t)]
  /\ fut' = [fut EXCEPT ![t] = PendingFuture]
  /\ tpc' = [tpc EXCEPT ![t] = "queued"]
  /\ UNCHANGED notSched
  /\ UNCHANGED <<load, gpuCount, env, pending, lock, tgpu, tpipe, child, msg, termSent, running>>

\* a worker taking the work item submitted last
NewestWorkItem(q) == q[Len(q)]

\* ProcessPoolExecutor(max_workers=1): the single worker process takes the
\* work items in the order pool.submit enqueued them
NextWorkItem(q) == Head(q)

\* the executor's single worker takes the next work item and
\* _worker_process_file starts the watchdog child (proc.start())
WorkerStart(g) ==
  /\ g \in GPUs
  /\ running[g] = 0
  /\ queue[g] # <<>>
  /\ LET t == NextWorkItem(queue[g])
     IN  /\ running' = [running EXCEPT ![g] = t]
         /\ queue' = [queue EXCEPT ![g] = SelectSeq(@, LAMBDA u : u # t)]
         /\ child' = [child EXCEPT ![t] = "alive"]
         /\ tpc' = [tpc EXCEPT ![t] = "running"]
  /\ UNCHANGED notSched
  /\ UNCHANGED <<load, gpuCount, env, pending, lock, tgpu, tpipe, fut, msg, termSent>>

\* _child_worker: q.put({"ok": True, ...}) or q.put({"ok": False, ...})
ChildDeliver(t, m) ==
  /\ tpc[t] = "running"
  /\ child[t] = "alive"
  /\ msg[t] = "none"
  /\ msg' = [msg EXCEPT ![t] = m]
  /\ UNCHANGED notSched
  /\ UNCHANGED <<load, gpuCount, env, pending, lock, tpc, tgpu, tpipe, fut, child, termSent,
                 queue, running>>

\* the child process ends: it returns, crashes, or dies of the signal
ChildExit(t) ==
  /\ child[t] = "alive"
  /\ child' = [child EXCEPT ![t] = "dead"]
  /\ UNCHANGED notSched
  /\ UNCHANGED <<load, gpuCount, env, pending, lock, tpc, tgpu, tpipe, fut, msg, termSent,
                 queue, running>>

\* proc.join(timeout=...) returns whether or not the child has ended
AfterJoin(c, died) == IF c = "alive" /\ died THEN "dead" ELSE c

\* the worker's slot once _worker_process_file has returned or raised
SlotStuck(g) == running[g]

SlotAfterTask(g) == 0

\* result_queue.get returned a message; finally: proc.join(timeout=1)
WorkerReceive(g, died) ==
  /\ g \in GPUs
  /\ running[g] # 0
  /\ LET t == running[g]
     IN  /\ tpc[t] = "running"
         /\ msg[t] # "none"
         /\ fut' = [fut EXCEPT ![t] = IF msg[t] = "ok" THEN PayloadResult ELSE ParseError]
         /\ msg' = [msg EXCEPT ![t] = "none"]
         /\ child' = [child EXCEPT ![t] = AfterJoin(@, died)]
         /\ tpc' = [tpc EXCEPT ![t] = "resolved"]
  /\ running' = [running EXCEPT ![g] = SlotAfterTask(g)]
  /\ UNCHANGED notSched
  /\ UNCHANGED <<load, gpuCount, env, pending, lock, tgpu, tpipe, termSent, queue>>

\* result_queue.get raised queue.Empty: terminate, join(timeout=5), raise
\* TimeoutError; finally: proc.join(timeout=1)
WorkerTimeout(g, died) ==
  /\ g \in GPUs
  /\ running[g] # 0
  /\ LET t == running[g]
     IN  /\ tpc[t] = "running"
         /\ msg[t] = "none"
         /\ termSent' = [termSent EXCEPT ![t] = (child[t] = "alive")]
         /\ child' = [child EXCEPT ![t] = AfterJoin(@, died)]
         /\ fut' = [fut EXCEPT ![t] = HardTimeoutError(HardTimeout(env, tpipe[t]), tpipe[t])]
         /\ tpc' = [tpc EXCEPT ![t] = "resolved"]
  /\ running' = [running EXCEPT ![g] = SlotAfterTask(g)]
  /\ UNCHANGED notSched
  /\ UNCHANGED <<load, gpuCount, env, pending, lock, tgpu, tpipe, msg, queue>>

\* _done_cb, invoked once the future is done: with self._lock: exec_.pending -= 1
DoneCallback(t) ==
  /\ tpc[t] = "resolved"
  /\ LockFree
  /\ pending' = [pending EXCEPT ![tgpu[t]] = @ - 1]
  /\ tpc' = [tpc EXCEPT ![t] = "done"]
  /\ UNCHANGED notSched
  /\ UNCHANGED <<load, gpuCount, env, lock, tgpu, tpipe, fut, child, msg, termSent, queue, running>>

SchedNext ==
  \/ \E t \in Tasks, p \in Pipelines : PickSelect(t, p)
  \/ \E t \in Tasks : PickIncrement(t)
  \/ \E t \in Tasks : PoolSubmit(t)
  \/ \E g \in GPUSlots : WorkerStart(g)
  \/ \E t \in Tasks, m \in {"ok", "err"} : ChildDeliver(t, m)
  \/ \E t \in Tasks : ChildExit(t)
  \/ \E g \in GPUSlots, died \in BOOLEAN : WorkerReceive(g, died)
  \/ \E g \in GPUSlots, died \in BOOLEAN : WorkerTimeout(g, died)
  \/ \E t \in Tasks : DoneCallback(t)

SchedSpec == SchedInit /\ [][SchedNext]_vars

WatchdogSpec == WatchdogInit /\ [][SchedNext]_vars

\* The worker process is blocked in result_queue.get(timeout=hard_timeout) for
\* at most the hard timeout and in the joins for at most 6 s, so a worker with
\* work goes on; a thread inside submit goes on; the executor's management
\* thread runs the callbacks. Nothing is assumed of the child processes.
WorkerStep ==
  \/ \E g \in GPUSlots : WorkerStart(g)
  \/ \E g \in GPUSlots, died \in BOOLEAN : WorkerReceive(g, died)
  \/ \E g \in GPUSlots, died \in BOOLEAN : WorkerTimeout(g, died)

SubmitStep ==
  \/ \E t \in Tasks : PickIncrement(t)
  \/ \E t \in Tasks : PoolSubmit(t)

SchedFairness ==
  /\ WF_vars(WorkerStep)
  /\ WF_vars(SubmitStep)
  /\ WF_vars(\E t \in Tasks : DoneCallback(t))

FairSchedSpec == QueueInit /\ [][SchedNext]_vars /\ SchedFairness

(***************************************************************************)
(* GPU scheduler: properties                                               *)
(***************************************************************************)
InFlight(u) == tpc[u] \in {"picked", "queued", "running", "resolved"}

\* the timeout configured for a pipeline: its own variable when set, else the
\* global variable when set, else 600 s
ConfiguredTimeout(p) ==
  LET own == IF p = "sci" THEN env.sci
             ELSE IF p = "images" THEN env.images ELSE env.default
  IN  IF own # Unset THEN own
      ELSE IF env.global # Unset THEN env.global ELSE DefaultHardTimeout

\* C1: while a submit is between selecting its executor and incrementing the
\* counter, it holds the scheduler lock, it is the only submit there, and the
\* executor it selected has the minimal pending count of the current counters
\* and is the first such executor in GPU_IDS order.
C1_LeastLoadedAtomicPick ==
  /\ \A t \in Tasks :
       tpc[t] = "selected" =>
         /\ lock = t
         /\ tgpu[t] \in GPUs
         /\ \A h \in GPUs : pending[tgpu[t]] <= pending[h]
         /\ \A h \in GPUs : h < tgpu[t] => pending[h] > pending[tgpu[t]]
  /\ Cardinality({t \in Tasks : tpc[t] = "selected"}) <= 1

\* C1 witness: a submit has selected the second GPU because the first one is
\* more loaded, while another submit is still to come.
C1_Witness ==
  \E t, u \in Tasks :
    /\ tpc[t] = "selected" /\ tgpu[t] = 2
    /\ pending[1] > pending[2]
    /\ tpc[u] = "idle" /\ u <= load.tasks

C3_EveryFutureResolves ==
  \A t \in Tasks : (tpc[t] = "queued") ~> Resolved(t)

\* C3 witness: a worker is running a task after an earlier task of the same
\* GPU ended by hard timeout.
C3_Witness ==
  \E g \in GPUs, u \in Tasks :
    /\ running[g] # 0 /\ running[g] # u
    /\ tgpu[u] = g /\ fut[u].kind = "TimeoutError"

\* C4: at every moment at most one watchdog child is alive per GPU worker.
C4_OneParsePerGPU ==
  \A g \in GPUs : Cardinality({t \in Tasks : tgpu[t] = g /\ child[t] = "alive"}) <= 1

(***************************************************************************)
(* Two-stage pipeline: texts and content items                             *)
(*                                                                         *)
(* A text is a sequence of tokens; a list of lines is a sequence of        *)
(* one-token lines. Space and NL are the whitespace tokens, Surrogate is a *)
(* lone surrogate code point.                                              *)
(***************************************************************************)
Space == " "
NL == "\\n"
Surrogate == "\\ud800"
ImageDescription == "Image Description: "

\* before the first seq is given out: seq = 1
FirstSeq == 1

\* s.strip()
Strip(s) == s # <<>> /\ \E i \in 1..Len(s) : s[i] \notin {Space, NL}

\* clean_text: re.sub(r"[\ud800-\udfff]", "", text)
CleanText(s) == SelectSeq(s, LAMBDA w : w # Surrogate)

\* "\n".join(lines)
RECURSIVE JoinLines(_)
JoinLines(lines) ==
  IF lines = <<>> THEN <<>>
  ELSE IF Len(lines) = 1 THEN <<lines[1]>>
  ELSE <<lines[1], NL>> \o JoinLines(Tail(lines))

\* "\n".join(filter(None, parts)), parts being texts
RECURSIVE JoinParts(_)
JoinParts(parts) ==
  IF parts = <<>> THEN <<>>
  ELSE LET rest == JoinParts(Tail(parts))
       IN  IF parts[1] = <<>> THEN rest
           ELSE IF rest = <<>> THEN parts[1]
           ELSE parts[1] \o <<NL>> \o rest

\* a page_idx is <<n>>, or None when the parser gave no usable number
None == <<>>

\* int(item.get("page_idx", 0)) raises TypeError on None
IntRaises(page_idx) == page_idx = None
PageNumber(page_idx) == page_idx[1] + 1

image_text(item) == CleanText(JoinLines(item.img_caption \o item.img_footnote))

table_text(item) ==
  CleanText(JoinParts(<<JoinLines(item.table_caption), item.table_body,
                        JoinLines(item.table_footnote)>>))

list_text(item) ==
  IF item.list_items # <<>> THEN CleanText(JoinLines(item.list_items))
  ELSE CleanText(item.text)

\* item.get("img_path") and item["img_path"].strip()
HasImgPath(item) == item.img_path # "" /\ item.img_path # Space

\* an item of MinerU's content_list. img_exists: the image file is in the
\* output directory; img_passes: it passes the area, aspect, dimension, size,
\* duplicate and per-page filters of _build_image_jobs; image_seq: the
\* "__image_seq" annotation, 0 when absent
BlankItem ==
  [type |-> "text", text |-> <<>>, text_level |-> FALSE, page_idx |-> <<0>>,
   img_path |-> "", img_exists |-> FALSE, img_passes |-> FALSE,
   img_caption |-> <<>>, img_footnote |-> <<>>, list_items |-> <<>>,
   table_caption |-> <<>>, table_body |-> <<>>, table_footnote |-> <<>>,
   image_seq |-> 0]

\* the items the parser can emit in this model
ItemKinds ==
  { [BlankItem EXCEPT !.text = <<"A">>],
    [BlankItem EXCEPT !.type = "header", !.text = <<"H">>, !.page_idx = <<1>>],
    [BlankItem EXCEPT !.type = "image", !.img_path = "images/a.png", !.img_exists = TRUE,
                      !.img_passes = TRUE, !.img_caption = <<"cap">>],
    [BlankItem EXCEPT !.type = "image", !.img_path = "images/b.png", !.img_exists = TRUE,
                      !.img_passes = TRUE, !.page_idx = <<1>>],
    [BlankItem EXCEPT !.type = "image", !.img_path = "images/c.png", !.img_exists = TRUE,
                      !.img_caption = <<"cap">>],
    [BlankItem EXCEPT !.text = <<"B">>, !.page_idx = None] }

\* the content lists parse_doc can return
Documents == UNION { [1..n -> ItemKinds] : n \in 0..MaxItems }


(***************************************************************************)
(* Two-stage pipeline: _build_image_jobs                                   *)
(***************************************************************************)
\* _build_context_blocks: the item yields a context block
HasBlock(item) ==
  IF item.type \in {"text", "equation"} THEN Strip(item.text)
  ELSE IF item.type = "list" THEN Strip(list_text(item))
  ELSE IF item.type = "table" THEN Strip(table_text(item))
  ELSE IF item.type = "image" THEN Strip(image_text(item))
  ELSE FALSE

\* the page_idx of the context blocks, in document order
RECURSIVE BlockPages(_)
BlockPages(content) ==
  IF content = <<>> THEN <<>>
  ELSE (IF HasBlock(content[1]) THEN <<content[1].page_idx>> ELSE <<>>)
         \o BlockPages(Tail(content))

\* _resolve_context_windows for an image item: with no block of its own it
\* compares block_page <= current_page block after block until a later page;
\* the comparison raises TypeError on a None page
ContextRaises(content, item) ==
  LET pages == BlockPages(content)
  IN  /\ ~HasBlock(item)
      /\ \E k \in 1..Len(pages) :
           /\ pages[k] = None
           /\ \A j \in 1..(k-1) : pages[j] # None /\ pages[j][1] <= item.page_idx[1]

\* an entry of image_jobs that always carries the first seq
ImageJobFirstSeq(item, seq) ==
  [seq |-> FirstSeq, page_number |-> PageNumber(item.page_idx), is_title |-> item.text_level,
   img_path |-> item.img_path, base_text |-> image_text(item)]

\* one entry of image_jobs (the context_payload string is left out)
ImageJob(item, seq) ==
  [seq |-> seq, page_number |-> PageNumber(item.page_idx), is_title |-> item.text_level,
   img_path |-> item.img_path, base_text |-> image_text(item)]

\* the item annotated after seq += 1 instead of before it
AnnotateAfterIncrement(content, i, seq) == [content EXCEPT ![i].image_seq = seq + 1]

\* item["__image_seq"] = seq
Annotate(content, i, seq) == [content EXCEPT ![i].image_seq = seq]

\* the loop of _build_image_jobs from item i on, seq being the next number
RECURSIVE BuildFrom(_, _, _, _)
BuildFrom(content, i, seq, jobs) ==
  IF i > Len(content) THEN [raised |-> FALSE, image_jobs |-> jobs, content_list |-> content]
  ELSE LET item == content[i]
       IN  IF item.type # "image" \/ ~HasImgPath(item) \/ ~item.img_exists
             THEN BuildFrom(content, i + 1, seq, jobs)
           ELSE IF IntRaises(item.page_idx)
             THEN [raised |-> TRUE, image_jobs |-> <<>>, content_list |-> <<>>]
           ELSE IF ~item.img_passes
             THEN BuildFrom(content, i + 1, seq, jobs)
           ELSE IF ContextRaises(content, item)
             THEN [raised |-> TRUE, image_jobs |-> <<>>, content_list |-> <<>>]
           ELSE BuildFrom(Annotate(content, i, seq), i + 1, seq + 1,
                          Append(jobs, ImageJob(item, seq)))

_build_image_jobs(content_list) == BuildFrom(content_list, 1, FirstSeq, <<>>)


(***************************************************************************)
(* Two-stage pipeline: _merge_content                                      *)
(***************************************************************************)
\* vision_map.get(seq, "") by position in vision_results instead of by seq
VisionByPosition(vision_results, seq) ==
  IF seq \in 1..Len(vision_results) THEN vision_results[seq].vision_text ELSE <<>>

\* vision_map = {entry["seq"]: entry["vision_text"] ...}; vision_map.get(seq, "")
VisionLookup(vision_results, seq) ==
  LET hits == {k \in 1..Len(vision_results) : vision_results[k].seq = seq}
  IN  IF hits = {} THEN <<>>
      ELSE vision_results[CHOOSE k \in hits : \A h \in hits : h <= k].vision_text

\* a chunk of result_items; "type" is "" when the key is absent; "item" is the
\* index in content_list of the item the chunk was made from (not in the code)
Chunk(text, item, i, type) ==
  [text |-> text, page_number |-> PageNumber(item.page_idx), type |-> type, item |-> i]

\* the body of the loop of _merge_content for item i: the chunks it appends
ItemChunks(item, i, vision_results, chunk_type) ==
  LET is_title == item.type = "text" /\ item.text_level
      type == IF chunk_type /\ is_title THEN "title" ELSE ""
  IN  IF item.type = "image" /\ HasImgPath(item)
        THEN LET base_text == image_text(item)
                 vision_text == VisionLookup(vision_results, item.image_seq)
                 combined_text ==
                   IF base_text # <<>> /\ vision_text # <<>>
                     THEN base_text \o <<NL, ImageDescription>> \o vision_text
                   ELSE IF base_text # <<>> THEN base_text
                   ELSE vision_text
             IN  IF Strip(combined_text)
                   THEN <<Chunk(CleanText(combined_text), item, i, type)>>
                   ELSE <<>>
      ELSE IF item.type \in {"header", "footer"}
        THEN IF chunk_type /\ Strip(CleanText(item.text))
               THEN <<Chunk(CleanText(item.text), item, i, item.type)>>
               ELSE <<>>
      ELSE IF item.type = "list"
        THEN IF Strip(list_text(item))
               THEN <<Chunk(list_text(item), item, i, type)>>
               ELSE <<>>
      ELSE IF item.type \in {"text", "equation"} /\ Strip(item.text)
        THEN <<Chunk(CleanText(item.text), item, i, type)>>
      ELSE IF item.type = "table"
                /\ (item.table_caption # <<>> \/ item.table_body # <<>>
                      \/ item.table_footnote # <<>>)
        THEN <<Chunk(table_text(item), item, i, type)>>
      ELSE IF item.type = "image"
                /\ (item.img_caption # <<>> \/ item.img_footnote # <<>>)
                /\ ~HasImgPath(item)
        THEN IF Strip(image_text(item))
               THEN <<Chunk(image_text(item), item, i, type)>>
               ELSE <<>>
      ELSE <<>>

RECURSIVE MergeFrom(_, _, _, _)
MergeFrom(content, i, vision_results, chunk_type) ==
  IF i > Len(content) THEN <<>>
  ELSE ItemChunks(content[i], i, vision_results, chunk_type)
         \o MergeFrom(content, i + 1, vision_results, chunk_type)

\* the sort left out: the chunks stay in document order
HeadersInPlace(chunks) == chunks

\* result_items.sort(key=lambda ch: 0 if ch.get("type") == "header" else 1)
HeadersFirst(chunks) ==
  SelectSeq(chunks, LAMBDA c : c.type = "header")
    \o SelectSeq(chunks, LAMBDA c : c.type # "header")

\* int(item.get("page_idx", 0)) raises for some item of the loop
MergeRaises(content) == \E i \in 1..Len(content) : IntRaises(content[i].page_idx)

\* _merge_content with result_items.insert(0, chunk) for result_items.append(chunk)
_merge_content_prepend(content_list, vision_results, chunk_type) ==
  LET result_items == MergeFrom(content_list, 1, vision_results, chunk_type)
      n == Len(result_items)
  IN  [k \in 1..n |->
         [result_items[n + 1 - k] EXCEPT !.type = IF chunk_type THEN @ ELSE ""]]

\* the items _merge_content returns (when it does not raise)
_merge_content(content_list, vision_results, chunk_type) ==
  LET result_items == MergeFrom(content_list, 1, vision_results, chunk_type)
      sorted == IF chunk_type THEN HeadersFirst(result_items) ELSE result_items
  IN  [k \in 1..Len(sorted) |->
         [sorted[k] EXCEPT !.type = IF chunk_type THEN sorted[k].type ELSE ""]]


(***************************************************************************)
(* Two-stage pipeline: the workflow of one job                             *)
(*   chain(parse_task, dispatch), dispatch replaced by merge_task or by    *)
(*   chord(vision_task ..., merge_task)                                    *)
(***************************************************************************)
PARSE_QUEUE == "queue_normal"
VISION_QUEUE == "queue_vision"
DISPATCH_QUEUE == "default"
MERGE_QUEUE == "default"

\* resolve_two_stage_queues, with PARSE_URGENT_QUEUE, VISION_URGENT_QUEUE,
\* DISPATCH_URGENT_QUEUE and MERGE_URGENT_QUEUE at their defaults
resolve_two_stage_queues(priority) ==
  IF priority = "urgent"
    THEN [parse |-> "queue_parse_urgent", vision |-> "queue_vision_urgent",
          dispatch |-> "queue_dispatch_urgent", merge |-> "queue_merge_urgent"]
    ELSE [parse |-> PARSE_QUEUE, vision |-> VISION_QUEUE,
          dispatch |-> DISPATCH_QUEUE, merge |-> MERGE_QUEUE]

\* the paths of a job: the directory the router created under
\* MINERU_TASK_STORAGE_DIR (it holds the upload), the PDF an office upload was
\* converted to (a temporary file outside it), a directory parse_task would
\* create itself when given no workspace
UploadDir == "storage/upload-uuid"
ConvertedPdf == "tmp/converted.pdf"
FreshDir == "storage/parse-uuid"

\* two_stage_router: what submit_two_stage_job is called with. The handler
\* declares no priority field, so a priority sent in the form is dropped and
\* the four queue arguments keep their default None (written "")
RouterCall(in) ==
  [source_path |-> IF in.converted THEN ConvertedPdf ELSE "storage/upload-uuid/file",
   chunk_type |-> in.chunk_type, workspace |-> UploadDir, cleanup_source |-> FALSE,
   extra_cleanup |-> IF in.converted THEN {ConvertedPdf} ELSE {},
   parse_queue |-> "", vision_queue |-> "", dispatch_queue |-> "", merge_queue |-> ""]

\* submit_two_stage_job: the queues of the chain (parse_queue or PARSE_QUEUE,
\* ...); vision and merge are handed to dispatch, which resolves them again
SubmitQueues(call) ==
  [parse |-> IF call.parse_queue # "" THEN call.parse_queue ELSE PARSE_QUEUE,
   dispatch |-> IF call.dispatch_queue # "" THEN call.dispatch_queue ELSE DISPATCH_QUEUE,
   vision |-> IF call.vision_queue # "" THEN call.vision_queue ELSE VISION_QUEUE,
   merge |-> IF call.merge_queue # "" THEN call.merge_queue ELSE MERGE_QUEUE]

\* submit_two_stage_job: the payload of parse_task
SubmitPayload(call) ==
  [source_path |-> call.source_path, chunk_type |-> call.chunk_type,
   workspace |-> call.workspace, upload_workspace |-> call.workspace,
   cleanup_source |-> call.cleanup_source, extra_cleanup |-> call.extra_cleanup]

\* what the vision model says of image seq
VisionWords(seq) == <<"v" \o ToString(seq)>>

NoResult == [seq |-> 0, vision_text |-> <<>>, error |-> "", raised |-> FALSE]

\* vision_task with the except clause left out: the exception escapes
vision_task_unguarded(job, outcome) ==
  IF outcome = "raises"
    THEN [seq |-> job.seq, vision_text |-> <<>>, error |-> "exc", raised |-> TRUE]
    ELSE [seq |-> job.seq,
          vision_text |-> IF outcome = "text" THEN VisionWords(job.seq) ELSE <<>>,
          error |-> "", raised |-> FALSE]

\* vision_task: outcome is what vision_completion does (a description, an
\* empty string, an exception)
vision_task(job, outcome) ==
  IF outcome = "raises"
    THEN [seq |-> job.seq, vision_text |-> job.base_text, error |-> "exc", raised |-> FALSE]
    ELSE [seq |-> job.seq,
          vision_text |-> IF outcome = "text" THEN VisionWords(job.seq) ELSE <<>>,
          error |-> "", raised |-> FALSE]

\* the chord body is due as soon as one header task has finished
ChordReadyAny(header) == \E i \in 1..Len(header) : header[i].state = "done"

\* chord: the body is due when every header task has returned (a return is
\* counted when it happens; a later redelivery of the message does not take
\* it back)
ChordReady(header) == \A i \in 1..Len(header) : header[i].state \in {"done", "redelivered"}

\* parse_doc, given what do_parse does ("content": it returns the content list
\* and the output directory, "nothing": it returns None, "raises": it raises).
\* returned: "None" or "tuple"; content_list: <<list>>, or None; raised: the
\* text of the exception parse_doc lets out, "" when it returns.
\* `if response is None: return None, None, None`; `except Exception as e:
\* logger.exception(e)` falls off the end of the function
parse_doc(outcome, doc) ==
  IF outcome = "content"
    THEN [do_parse |-> outcome, returned |-> "tuple", content_list |-> <<doc>>, raised |-> ""]
  ELSE IF outcome = "nothing"
    THEN [do_parse |-> outcome, returned |-> "tuple", content_list |-> None, raised |-> ""]
  ELSE [do_parse |-> outcome, returned |-> "None", content_list |-> None, raised |-> ""]

\* the texts of parse_task's RuntimeErrors
ParseDocRaised == "parse_doc raised for <target_path> (size=<st_size> bytes): "
ReturnedNoContent == "parse_doc returned no content for <target_path>"
EmptyContentList == "parse_doc returned empty content_list."

\* parse_task from the call of parse_doc to `if content_list is None`: the
\* text of the error it raises, "" when it goes on
ParseTaskError(response) ==
  IF response.raised # "" THEN ParseDocRaised \o response.raised
  ELSE IF response.returned = "None" THEN ReturnedNoContent
  ELSE IF response.content_list = None THEN EmptyContentList
  ELSE ""

\* the ids chain(parse_task.s(...), dispatch.s(...)) freezes for its two tasks
ParseId == "parse"
DispatchId == "dispatch"

\* submit_two_stage_job: workflow.apply_async() returns the AsyncResult of the
\* last task of the chain
SubmittedId == DispatchId

\* a record of the result backend
Stored(state, value) == [state |-> state, value |-> value]

\* merge_task: the payload it returns
MergePayload(items) == [result |-> items, txt |-> "None", minio_assets |-> "None"]

\* the job has been enqueued by the router: the upload directory exists, and
\* so does the converted PDF of an office upload
TwoStageInit ==
  /\ load = [tasks |-> 0, pipelines |-> {"default"}]
  /\ gpuCount = 1
  /\ env = NoEnv
  /\ SchedulerCreated
  /\ RunnerAtRest
  /\ CeleryAtRest
  /\ StoreAtRest
  /\ ChunksAtRest
  /\ UrlsAtRest
  /\ VisionAtRest
  /\ SizeFilterAtRest
  /\ tsIn \in [doc : Documents, chunk_type : BOOLEAN, converted : BOOLEAN,
               priority : {"normal", "urgent"}]
  /\ tsStage = "parse"
  /\ tsCause = ""
  /\ tsFs = {UploadDir} \cup (IF tsIn.converted THEN {ConvertedPdf} ELSE {})
  /\ tsPayload = [workspace |-> "", upload_workspace |-> "", extra_cleanup |-> {},
                  content_list |-> <<>>, image_jobs |-> <<>>, chunk_type |-> FALSE]
  /\ tsVision = <<>>
  /\ tsMergeCalls = <<>>
  /\ tsResult = <<>>
  /\ tsBackend = [id \in {ParseId, DispatchId} |-> Stored("PENDING", <<>>)]
  /\ tsResponse = <<>>
  /\ tsSlot = [task |-> "", i |-> 0]

\* parse_task. parsed: what do_parse does inside parse_doc ("content": it
\* returns the content list, "nothing": it returns None, "raises": an
\* exception)
ParseTask(parsed) ==
  /\ tsStage = "parse"
  /\ tsResponse' = parse_doc(parsed, tsIn.doc)
  /\ LET payload == SubmitPayload(RouterCall(tsIn))
         workspace == IF payload.workspace # "" THEN payload.workspace ELSE FreshDir
         made == (tsFs \cup {workspace})
                   \ (IF payload.cleanup_source THEN {payload.source_path} ELSE {})
         built == _build_image_jobs(tsIn.doc)
     IN  /\ tsFs' = made
         /\ IF ParseTaskError(tsResponse') # "" \/ built.raised
              THEN /\ tsStage' = "FAILURE"
                   /\ tsCause' = "parse"
                   /\ tsBackend' =
                        [id \in {ParseId, DispatchId} |->
                           Stored("FAILURE",
                                  [error |-> IF ParseTaskError(tsResponse') # ""
                                               THEN ParseTaskError(tsResponse')
                                               ELSE "TypeError"])]
                   /\ UNCHANGED tsPayload
              ELSE /\ tsStage' = "dispatch"
                   /\ tsPayload' = [workspace |-> workspace,
                                    upload_workspace |-> payload.upload_workspace,
                                    extra_cleanup |-> payload.extra_cleanup,
                                    content_list |-> built.content_list,
                                    image_jobs |-> built.image_jobs,
                                    chunk_type |-> payload.chunk_type]
                   /\ tsBackend' = [tsBackend EXCEPT ![ParseId] = Stored("SUCCESS", tsPayload')]
                   /\ UNCHANGED tsCause
  /\ UNCHANGED <<tsIn, tsVision, tsMergeCalls, tsResult>>
  /\ UNCHANGED notTwoStage

\* merge_task.s(vision_results, parse_payload).set(queue=...) is sent
MergeCall(vision_results, parse_payload, to_queue) ==
  [vision_results |-> vision_results, parse_payload |-> parse_payload, queue |-> to_queue]

\* dispatch ends by returning DISPATCHED after sending the merge itself
Returned(started) == Stored("SUCCESS", [dispatched |-> TRUE])

\* dispatch ends with the Ignore that self.replace raises: the worker stores
\* nothing, the task's record stays as task_track_started left it
Ignored(started) == started

\* self.replace(sig): sig.freeze(self.request.id), so the merge_task signature,
\* or the body of the chord, runs under the id of the replaced task
ReplacementId(request_id) == request_id

\* dispatch: self.replace(merge_task.s([], ...)) or self.replace(chord(...))
Dispatch ==
  /\ tsStage = "dispatch"
  /\ tsBackend' = [tsBackend EXCEPT ![DispatchId] = Ignored(Stored("STARTED", <<>>))]
  /\ LET image_jobs == tsPayload.image_jobs
         queues == SubmitQueues(RouterCall(tsIn))
     IN  IF image_jobs = <<>>
           THEN /\ tsMergeCalls' = Append(tsMergeCalls, MergeCall(<<>>, tsPayload, queues.merge))
                /\ tsStage' = "merge"
                /\ UNCHANGED tsVision
           ELSE /\ tsVision' = [i \in 1..Len(image_jobs) |->
                                  [job |-> image_jobs[i], queue |-> queues.vision,
                                   state |-> "queued", outcome |-> "", result |-> NoResult]]
                /\ tsStage' = "vision"
                /\ UNCHANGED tsMergeCalls
  /\ UNCHANGED <<tsIn, tsCause, tsFs, tsPayload, tsResult, tsResponse>>
  /\ UNCHANGED notTwoStage

\* a vision worker runs header task i; the chord sends the body with the
\* header results in header order once the header is complete, and fails the
\* workflow without sending it when a header task raised
VisionTask(i, outcome) ==
  /\ i \in 1..Len(tsVision)
  /\ tsVision[i].state \in {"queued", "redelivered"}
  /\ LET result == vision_task(tsVision[i].job, outcome)
         header == [tsVision EXCEPT ![i] = [@ EXCEPT !.state = "done", !.outcome = outcome,
                                                    !.result = result]]
     IN  /\ tsVision' = header
         /\ tsBackend' =
              IF result.raised /\ tsStage = "vision"
                THEN [tsBackend EXCEPT ![ReplacementId(DispatchId)] =
                                         Stored("FAILURE", [error |-> "ChordError"])]
                ELSE tsBackend
         /\ IF result.raised
              THEN /\ tsStage' = "FAILURE"
                   /\ tsCause' = "vision"
                   /\ UNCHANGED tsMergeCalls
            ELSE IF ChordReady(header) /\ tsStage = "vision"
              THEN /\ tsMergeCalls' =
                        Append(tsMergeCalls,
                               MergeCall([k \in 1..Len(header) |-> header[k].result],
                                         tsPayload, SubmitQueues(RouterCall(tsIn)).merge))
                   /\ tsStage' = "merge"
                   /\ UNCHANGED tsCause
            ELSE UNCHANGED <<tsStage, tsCause, tsMergeCalls>>
  /\ UNCHANGED <<tsIn, tsFs, tsPayload, tsResult, tsResponse>>
  /\ UNCHANGED notTwoStage

\* os.unlink of a missing path raises FileNotFoundError out of the loop
UnlinkEscapesMissing(missing) == missing

\* finally: try: os.unlink(path) / except FileNotFoundError: pass / except
\* Exception: logger.debug(...): no exception leaves the loop
UnlinkEscapes(missing) == FALSE

\* shutil.rmtree(path) with ignore_errors left at False: a missing path raises
rmtree_strict(missing) == missing

\* shutil.rmtree(path, ignore_errors=True): nothing is raised
rmtree_raises(missing) == FALSE

\* merge_task after _merge_content: rmtree(workspace), rmtree(upload_workspace),
\* and Path(path).unlink() for every extra cleanup path with FileNotFoundError
\* passed over. fs: the file system left; raised: an exception came out
merge_cleanup(fs, parse_payload) ==
  [fs |-> fs \ ({parse_payload.workspace, parse_payload.upload_workspace}
                  \cup parse_payload.extra_cleanup),
   raised |-> \/ (parse_payload.workspace # "" /\ rmtree_raises(parse_payload.workspace \notin fs))
              \/ (parse_payload.upload_workspace # ""
                    /\ rmtree_raises(parse_payload.upload_workspace \notin fs))
              \/ \E path \in parse_payload.extra_cleanup : UnlinkEscapes(path \notin fs)]

\* merge_task: _merge_content, then rmtree(workspace), rmtree(upload_workspace)
\* and unlink of every extra cleanup path
MergeTask ==
  /\ tsStage = "merge"
  /\ LET call == tsMergeCalls[Len(tsMergeCalls)]
         parse_payload == call.parse_payload
     IN  IF MergeRaises(parse_payload.content_list)
           THEN /\ tsStage' = "FAILURE"
                /\ tsCause' = "merge"
                /\ tsBackend' = [tsBackend EXCEPT ![ReplacementId(DispatchId)] =
                                                    Stored("FAILURE", [error |-> "merge"])]
                /\ UNCHANGED <<tsFs, tsResult>>
           ELSE /\ tsResult' = _merge_content(parse_payload.content_list, call.vision_results,
                                              parse_payload.chunk_type)
                /\ tsBackend' = [tsBackend EXCEPT ![ReplacementId(DispatchId)] =
                                                    Stored("SUCCESS", MergePayload(tsResult'))]
                /\ tsFs' = merge_cleanup(tsFs, parse_payload).fs
                /\ tsStage' = "SUCCESS"
                /\ UNCHANGED tsCause
  /\ UNCHANGED <<tsIn, tsPayload, tsVision, tsMergeCalls, tsResponse>>
  /\ UNCHANGED notTwoStage

TwoStageNext ==
  \/ \E parsed \in {"content", "nothing", "raises"} : ParseTask(parsed)
  \/ Dispatch
  \/ \E i \in 1..MaxItems, outcome \in {"text", "empty", "raises"} : VisionTask(i, outcome)
  \/ MergeTask

TwoStageSpec == TwoStageInit /\ [][TwoStageNext]_vars


(***************************************************************************)
(* Two-stage pipeline: properties                                          *)
(***************************************************************************)
IsSuffix(s, t) == Len(s) <= Len(t) /\ SubSeq(t, Len(t) - Len(s) + 1, Len(t)) = s

\* the paths the job must leave behind deleted: its workspace, its upload
\* workspace and its extra cleanup paths
JobPaths ==
  LET payload == SubmitPayload(RouterCall(tsIn))
  IN  {payload.workspace, payload.upload_workspace} \cup payload.extra_cleanup

\* C5: merge_task is started at most once and only by dispatch or by the
\* completed chord. With no image job it is started by dispatch itself with an
\* empty result list and no vision task exists; with n > 0 image jobs there is
\* one vision task per image job on the vision queue and merge_task is started
\* only when all of them have finished, with exactly one result per image job.
\* In both cases it goes to the merge queue with the stage-1 result unchanged.
C5_DispatchStartsMergeOnce ==
  LET image_jobs == tsPayload.image_jobs
  IN  /\ Len(tsMergeCalls) <= 1
      /\ Len(tsMergeCalls) = 1 <=> (tsStage \in {"merge", "SUCCESS"} \/ tsCause = "merge")
      /\ tsStage \in {"vision", "merge", "SUCCESS"} =>
           /\ Len(tsVision) = Len(image_jobs)
           /\ \A i \in 1..Len(tsVision) :
                tsVision[i].job = image_jobs[i] /\ tsVision[i].queue = VISION_QUEUE
      /\ tsStage = "vision" => image_jobs # <<>>
      /\ \A c \in 1..Len(tsMergeCalls) :
           LET call == tsMergeCalls[c]
           IN  /\ call.queue = MERGE_QUEUE
               /\ call.parse_payload = tsPayload
               /\ call.parse_payload.content_list = _build_image_jobs(tsIn.doc).content_list
               /\ \A i \in 1..Len(tsVision) : tsVision[i].state = "done"
               /\ Len(call.vision_results) = Len(image_jobs)
               /\ \A j \in 1..Len(image_jobs) :
                    Cardinality({k \in 1..Len(call.vision_results) :
                                   call.vision_results[k].seq = image_jobs[j].seq}) = 1

\* C5 witness: the chord of a document with two image jobs has started the merge
C5_Witness ==
  /\ tsStage = "merge"
  /\ Len(tsVision) = 2
  /\ Len(tsMergeCalls) = 1
  /\ Len(tsMergeCalls[1].vision_results) = 2

\* C6: a vision task never raises and never fails the job: whatever the
\* adapter does, its result carries the job's seq; when the adapter raised, the
\* vision text is the job's base text and the error is recorded; and once all
\* vision tasks have finished the merge has been started.
C6_VisionFailureContained ==
  /\ tsCause # "vision"
  /\ \A i \in 1..Len(tsVision) :
       tsVision[i].state = "done" =>
         /\ ~tsVision[i].result.raised
         /\ tsVision[i].result.seq = tsVision[i].job.seq
         /\ tsVision[i].outcome = "raises" =>
              /\ tsVision[i].result.vision_text = tsVision[i].job.base_text
              /\ tsVision[i].result.error # ""
  /\ (tsVision # <<>> /\ \A i \in 1..Len(tsVision) : tsVision[i].state = "done")
       => Len(tsMergeCalls) = 1

\* C6 witness: the job succeeded although the adapter raised for one image and
\* answered for another
C6_Witness ==
  /\ tsStage = "SUCCESS"
  /\ \E i, j \in 1..Len(tsVision) :
       tsVision[i].outcome = "raises" /\ tsVision[j].outcome = "text"

\* C7 (as claimed): the merged items are the same for every order of the
\* vision results; the chunks follow the document order of their items, so that
\* an image's chunk sits where its item sits in the document; and the chunk of
\* an image item ends with the vision text of the result that has the item's seq.
C7_Original ==
  \A c \in 1..Len(tsMergeCalls) :
    LET call == tsMergeCalls[c]
        content == call.parse_payload.content_list
        chunk_type == call.parse_payload.chunk_type
        results == call.vision_results
        merged == _merge_content(content, results, chunk_type)
    IN  ~MergeRaises(content) =>
          /\ \A f \in Permutations(1..Len(results)) :
               _merge_content(content, [k \in 1..Len(results) |-> results[f[k]]], chunk_type)
                 = merged
          /\ \A j, k \in 1..Len(merged) : j < k => merged[j].item < merged[k].item
          /\ \A k \in 1..Len(merged), r \in 1..Len(results) :
               results[r].seq = content[merged[k].item].image_seq
                 => IsSuffix(CleanText(results[r].vision_text), merged[k].text)

\* C7 (amended): the merged items are the same for every order of the vision
\* results; the chunks other than page headers follow the document order of
\* their items (with chunk_type set the header chunks are moved in front of all
\* the others), and the chunk of an image item ends with the vision text of the
\* result that has the item's seq.
C7_MergeOrderIndependent ==
  \A c \in 1..Len(tsMergeCalls) :
    LET call == tsMergeCalls[c]
        content == call.parse_payload.content_list
        chunk_type == call.parse_payload.chunk_type
        results == call.vision_results
        merged == _merge_content(content, results, chunk_type)
    IN  ~MergeRaises(content) =>
          /\ \A f \in Permutations(1..Len(results)) :
               _merge_content(content, [k \in 1..Len(results) |-> results[f[k]]], chunk_type)
                 = merged
          /\ tsStage = "SUCCESS" => tsResult = merged
          /\ \A j, k \in 1..Len(merged) :
               (j < k /\ (merged[j].type = "header" <=> merged[k].type = "header"))
                 => merged[j].item < merged[k].item
          /\ \A k \in 1..Len(merged), r \in 1..Len(results) :
               results[r].seq = content[merged[k].item].image_seq
                 => IsSuffix(CleanText(results[r].vision_text), merged[k].text)

\* C7 witness: a job succeeded whose two images got different descriptions
C7_Witness ==
  /\ tsStage = "SUCCESS"
  /\ Len(tsMergeCalls) = 1
  /\ LET results == tsMergeCalls[1].vision_results
     IN  /\ Len(results) = 2
         /\ results[1].vision_text # <<>>
         /\ results[2].vision_text # <<>>
         /\ results[1].vision_text # results[2].vision_text
  /\ Len(tsResult) >= 2

\* C8: in every terminal state of the job, success or failure, the job's
\* workspace, upload workspace and extra cleanup paths no longer exist.
C8_CleanupOnEveryTerminalState ==
  tsStage \in {"SUCCESS", "FAILURE"} => JobPaths \cap tsFs = {}

\* C9: when merge_task has exited, by returning or by raising, the workspace,
\* the upload workspace and the extra cleanup paths no longer exist.
C9_MergeCleansOnEveryExit ==
  (tsStage = "SUCCESS" \/ (tsStage = "FAILURE" /\ tsCause = "merge"))
    => \A p \in JobPaths : p \notin tsFs


(***************************************************************************)
(* Single-stage job: POST /mineru/task or /mineru_with_images/task, then   *)
(* the Celery task run_mineru_task / run_mineru_with_images_task around    *)
(* run_mineru_local_job                                                    *)
(***************************************************************************)
SUPPORTED_EXTENSIONS == {".pdf", ".png"}
CONVERTIBLE_OFFICE_EXTENSIONS == {".docx"}
MARKDOWN_EXTENSIONS == {".md"}
ACCEPTED_EXTENSIONS ==
  SUPPORTED_EXTENSIONS \cup CONVERTIBLE_OFFICE_EXTENSIONS \cup MARKDOWN_EXTENSIONS

\* the extensions an upload can have: none, an unsupported one, accepted ones
Extensions == {"", ".exe"} \cup ACCEPTED_EXTENSIONS

\* the paths of a job: the directory the router creates under
\* MINERU_TASK_STORAGE_DIR, the upload written into it, and the PDF that
\* convert_office_document_to_pdf leaves in a mkstemp file outside it
RnWorkspace == "storage/uuid"
RnSource == "storage/uuid/upload"
RnConverted == "tmp/mineru-office.pdf"

\* what disappears with a path: a directory goes with its content
Contents(path) == IF path = RnWorkspace THEN {RnWorkspace, RnSource} ELSE {path}

\* _validate_extension and the Markdown + MinIO check: the request is refused
Invalid(in) ==
  \/ in.ext = ""
  \/ in.ext \notin ACCEPTED_EXTENSIONS
  \/ (in.save_to_minio /\ in.ext \in MARKDOWN_EXTENSIONS)

\* run_mineru_local_job, finally: os.unlink of every path of cleanup_paths
runner_cleanup(fs, cleanup_paths) ==
  [fs |-> fs \ cleanup_paths,
   raised |-> \E path \in cleanup_paths : UnlinkEscapes(path \notin fs)]

\* run_mineru_task, finally: shutil.rmtree(workspace, ignore_errors=True)
wrapper_cleanup(fs, workspace) ==
  [fs |-> fs \ Contents(workspace), raised |-> rmtree_raises(workspace \notin fs)]

\* the priority values a client sends (the form field is a free string)
Priorities == {"normal", "urgent", "URGENT", "high"}

\* str.lower() on the priority values
Lower(str) == IF str = "URGENT" THEN "urgent" ELSE str

CELERY_TASK_MINERU_QUEUE == "queue_normal"
CELERY_TASK_URGENT_QUEUE == "queue_urgent"

\* queue_name = CELERY_TASK_URGENT_QUEUE if priority.lower() == "urgent"
\*              else CELERY_TASK_MINERU_QUEUE
QueueName(priority) ==
  IF Lower(priority) = "urgent" THEN CELERY_TASK_URGENT_QUEUE ELSE CELERY_TASK_MINERU_QUEUE

\* the minio_prefix form values: not sent, blank, a custom prefix
Prefixes == {"", " ", "docs"}

\* _normalize_prefix_component on the prefix values: whitespace becomes "_",
\* which strip("/_") removes
NormalizePrefix(raw) == IF raw = " " THEN "" ELSE raw

\* build_minio_prefix, the upload being named "upload.<ext>"
build_minio_prefix(custom_prefix) ==
  IF custom_prefix # "" /\ NormalizePrefix(custom_prefix) # ""
    THEN NormalizePrefix(custom_prefix) \o "/upload"
    ELSE "mineru/upload"

\* a request has arrived
RunnerInit ==
  /\ load = [tasks |-> 0, pipelines |-> {"default"}]
  /\ gpuCount = 1
  /\ env = NoEnv
  /\ SchedulerCreated
  /\ TwoStageAtRest
  /\ CeleryAtRest
  /\ StoreAtRest
  /\ ChunksAtRest
  /\ UrlsAtRest
  /\ VisionAtRest
  /\ SizeFilterAtRest
  /\ rnIn \in [ext : Extensions, save_to_minio : BOOLEAN, credentials : BOOLEAN,
               prefix : Prefixes, priority : Priorities,
               task : {"mineru.parse", "mineru.parse_images"}]
  /\ rnQueue = ""
  /\ rnPrefix = ""
  /\ rnPc = "request"
  /\ rnFs = {}
  /\ rnCleanup = {}
  /\ rnProcessing = ""
  /\ rnMinio = FALSE
  /\ rnBody = ""
  /\ rnExit = ""
  /\ rnMissed = {}
  /\ rnOutcome = ""
  /\ rnOps = <<>>

\* the router: validate, create the workspace, write the upload, enqueue;
\* rmtree(workspace) and 503 when the broker refuses
RouterAccept(broker_up) ==
  /\ rnPc = "request"
  /\ IF Invalid(rnIn)
       THEN /\ rnPc' = "rejected"
            /\ rnOutcome' = "HTTP 400"
            /\ UNCHANGED <<rnFs, rnQueue>>
     ELSE IF broker_up
       THEN /\ rnPc' = "queued"
            /\ rnQueue' = QueueName(rnIn.priority)
            /\ rnFs' = rnFs \cup {RnWorkspace, RnSource}
            /\ UNCHANGED rnOutcome
     ELSE /\ rnPc' = "unavailable"
          /\ rnOutcome' = "HTTP 503"
          /\ rnFs' = (rnFs \cup {RnWorkspace, RnSource}) \ Contents(RnWorkspace)
          /\ UNCHANGED rnQueue
  /\ UNCHANGED <<rnIn, rnOps, rnPrefix, rnCleanup, rnProcessing, rnMinio, rnBody, rnExit, rnMissed>>
  /\ UNCHANGED notRunner

\* the body has ended with this return or exception: on to the finally clause
BodyEnds(how) ==
  /\ rnBody' = how
  /\ rnExit' = how
  /\ rnPc' = "finally"

\* the task starts: pop workspace; run_mineru_local_job validates, sets
\* cleanup_paths = {source_path} and enters the try block. A validation error
\* is raised before the try block and skips the runner's finally clause.
TaskBegin ==
  /\ rnPc = "queued"
  /\ IF Invalid(rnIn)
       THEN /\ rnBody' = "MineruTaskError"
            /\ rnExit' = "MineruTaskError"
            /\ rnPc' = "wrapper_finally"
            /\ UNCHANGED <<rnCleanup, rnProcessing>>
       ELSE /\ rnCleanup' = {RnSource}
            /\ rnProcessing' = RnSource
            /\ rnPc' = IF rnIn.ext \in MARKDOWN_EXTENSIONS THEN "markdown"
                       ELSE IF rnIn.ext \in CONVERTIBLE_OFFICE_EXTENSIONS THEN "convert"
                       ELSE IF rnIn.save_to_minio THEN "minio"
                       ELSE "parse"
            /\ UNCHANGED <<rnBody, rnExit>>
  /\ UNCHANGED <<rnIn, rnOps, rnQueue, rnPrefix, rnFs, rnMinio, rnMissed, rnOutcome>>
  /\ UNCHANGED notRunner


\* _prepare_markdown_payload: return the payload, or fail reading the file
Markdown(ok) ==
  /\ rnPc = "markdown"
  /\ BodyEnds(IF ok THEN "payload" ELSE "OSError")
  /\ UNCHANGED <<rnIn, rnOps, rnQueue, rnPrefix, rnFs, rnCleanup, rnProcessing, rnMinio, rnMissed, rnOutcome>>
  /\ UNCHANGED notRunner

\* maybe_convert_to_pdf: the converted PDF joins the cleanup set, or
\* LibreOffice fails and nothing is left behind
Convert(ok) ==
  /\ rnPc = "convert"
  /\ IF ok
       THEN /\ rnFs' = rnFs \cup {RnConverted}
            /\ rnCleanup' = rnCleanup \cup {RnConverted}
            /\ rnProcessing' = RnConverted
            /\ rnPc' = IF rnIn.save_to_minio THEN "minio" ELSE "parse"
            /\ UNCHANGED <<rnBody, rnExit>>
       ELSE /\ BodyEnds("RuntimeError")
            /\ UNCHANGED <<rnFs, rnCleanup, rnProcessing>>
  /\ UNCHANGED <<rnIn, rnOps, rnQueue, rnPrefix, rnMinio, rnMissed, rnOutcome>>
  /\ UNCHANGED notRunner

\* save_to_minio: the PDF check, then initialize_minio_context (the four
\* credential fields must be non-blank; ok: the client and the bucket can be
\* prepared), then build_minio_prefix
MinioInit(ok) ==
  /\ rnPc = "minio"
  /\ IF ~(rnIn.ext = ".pdf" \/ rnProcessing = RnConverted)
       THEN BodyEnds("MineruTaskError") /\ UNCHANGED <<rnMinio, rnPrefix, rnOps>>
     ELSE IF ~rnIn.credentials
       THEN /\ BodyEnds("HTTPException: Missing MinIO field(s)")
            /\ UNCHANGED <<rnMinio, rnPrefix, rnOps>>
     ELSE IF ok
       THEN /\ rnMinio' = TRUE
            /\ rnPrefix' = build_minio_prefix(rnIn.prefix)
            /\ rnOps' = Append(rnOps, "ensure_bucket")
            /\ rnPc' = "parse"
            /\ UNCHANGED <<rnBody, rnExit>>
     ELSE /\ BodyEnds("MinioError")
          /\ rnOps' = Append(rnOps, "ensure_bucket")
          /\ UNCHANGED <<rnMinio, rnPrefix>>
  /\ UNCHANGED <<rnIn, rnQueue, rnFs, rnCleanup, rnProcessing, rnMissed, rnOutcome>>
  /\ UNCHANGED notRunner

\* _parse_with_scheduler: scheduler.submit(...).result() gives the payload or
\* raises the hard-timeout or the parse error
Parse(result) ==
  /\ rnPc = "parse"
  /\ rnOps' = Append(rnOps, "submit")
  /\ IF result # "payload" THEN BodyEnds(result)
     ELSE IF rnMinio THEN rnPc' = "upload" /\ UNCHANGED <<rnBody, rnExit>>
     ELSE BodyEnds("payload")
  /\ UNCHANGED <<rnIn, rnQueue, rnPrefix, rnFs, rnCleanup, rnProcessing, rnMinio, rnMissed, rnOutcome>>
  /\ UNCHANGED notRunner

\* an upload that writes the bundle first and clears the prefix afterwards
upload_then_clear(last, meta) ==
  SubSeq(<<"upload_bundle", "clear_prefix", "upload_meta">>, 1,
         IF last = "upload_meta" /\ meta THEN 3
         ELSE IF last = "clear_prefix" THEN 1 ELSE 2)

\* the store calls of _maybe_upload_minio up to the call that is its last
\* (the one that fails, or upload_meta / upload_bundle when all succeed):
\* upload_pdf_assets does clear_prefix, then upload_pdf_bundle; upload_meta_text
\* follows when minio_meta is given
maybe_upload_calls(last, meta) ==
  SubSeq(<<"clear_prefix", "upload_bundle", "upload_meta">>, 1,
         IF last = "upload_meta" /\ meta THEN 3
         ELSE IF last = "clear_prefix" THEN 1 ELSE 2)

\* _maybe_upload_minio, then return the payload. ok: every store call
\* succeeds; last: the call that fails when not ok; meta: minio_meta is given
Upload(ok, last, meta) ==
  /\ rnPc = "upload"
  /\ rnOps' = rnOps \o maybe_upload_calls(IF ok THEN "upload_meta" ELSE last, meta)
  /\ BodyEnds(IF ok THEN "payload" ELSE "UploadError")
  /\ UNCHANGED <<rnIn, rnQueue, rnPrefix, rnFs, rnCleanup, rnProcessing, rnMinio, rnMissed, rnOutcome>>
  /\ UNCHANGED notRunner

\* run_mineru_local_job, finally: unlink every path of cleanup_paths
RunnerFinally ==
  /\ rnPc = "finally"
  /\ rnMissed' = rnCleanup \ rnFs
  /\ rnFs' = runner_cleanup(rnFs, rnCleanup).fs
  /\ rnExit' = IF runner_cleanup(rnFs, rnCleanup).raised THEN "FileNotFoundError" ELSE rnExit
  /\ rnPc' = "wrapper_finally"
  /\ UNCHANGED <<rnIn, rnOps, rnQueue, rnPrefix, rnCleanup, rnProcessing, rnMinio, rnBody, rnOutcome>>
  /\ UNCHANGED notRunner

\* the task, finally: shutil.rmtree(workspace, ignore_errors=True); then the
\* return value or the exception makes the task's final state
WrapperFinally ==
  /\ rnPc = "wrapper_finally"
  /\ rnFs' = wrapper_cleanup(rnFs, RnWorkspace).fs
  /\ rnOutcome' = IF rnExit = "payload" THEN "SUCCESS" ELSE "FAILURE"
  /\ rnPc' = "done"
  /\ UNCHANGED <<rnIn, rnOps, rnQueue, rnPrefix, rnCleanup, rnProcessing, rnMinio, rnBody, rnExit, rnMissed>>
  /\ UNCHANGED notRunner

\* something else removes a path of the running job (a temp-file reaper, an
\* operator)
Vanish(path) ==
  /\ rnPc \in {"queued", "markdown", "convert", "minio", "parse", "upload", "finally",
               "wrapper_finally"}
  /\ path \in rnFs
  /\ rnFs' = rnFs \ Contents(path)
  /\ UNCHANGED <<rnIn, rnOps, rnQueue, rnPrefix, rnPc, rnCleanup, rnProcessing, rnMinio, rnBody, rnExit, rnMissed,
                 rnOutcome>>
  /\ UNCHANGED notRunner

\* a status endpoint without the try around AsyncResult(...).state: the
\* backend's exception becomes a 500
mineru_task_status_unguarded(reachable, state, info) ==
  IF ~reachable
    THEN [backend |-> "down", http |-> 500, state |-> "", result |-> FALSE, error |-> ""]
  ELSE IF state = "SUCCESS"
    THEN [backend |-> "up", http |-> 200, state |-> state, result |-> TRUE, error |-> ""]
  ELSE IF state \in {"FAILURE", "REVOKED"}
    THEN [backend |-> "up", http |-> 500, state |-> state, result |-> FALSE,
          error |-> IF info # "" THEN info ELSE state]
  ELSE [backend |-> "up", http |-> 200, state |-> state, result |-> FALSE, error |-> ""]

\* mineru_task_status (mineru_with_images_task_status has the same body)
mineru_task_status(reachable, state, info) ==
  IF ~reachable
    THEN [backend |-> "down", http |-> 503, state |-> "", result |-> FALSE, error |-> ""]
  ELSE IF state = "SUCCESS"
    THEN [backend |-> "up", http |-> 200, state |-> state, result |-> TRUE, error |-> ""]
  ELSE IF state \in {"FAILURE", "REVOKED"}
    THEN [backend |-> "up", http |-> 500, state |-> state, result |-> FALSE,
          error |-> IF info # "" THEN info ELSE state]
  ELSE [backend |-> "up", http |-> 200, state |-> state, result |-> FALSE, error |-> ""]

\* the state the result backend holds for the task id the router returned; an
\* id the backend knows nothing about reads as PENDING
RunnerTaskState ==
  IF rnOutcome \in {"SUCCESS", "FAILURE"} THEN rnOutcome
  ELSE IF rnPc \in {"request", "rejected", "unavailable", "queued"} THEN "PENDING"
  ELSE "STARTED"

\* GET /mineru/task/{task_id} while the job is anywhere on its way
RunnerStatus(reachable) ==
  /\ ctPoll' = mineru_task_status(reachable, RunnerTaskState,
                                  IF rnOutcome = "FAILURE" THEN rnExit ELSE "")
  /\ UNCHANGED <<ctName, ctMsg, ctWorker, ctState, ctInfo, ctRuns>>
  /\ UNCHANGED <<schedVars, tsVars, runVars, osVars, ckVars, slotVars>>

RunnerNext ==
  \/ \E reachable \in BOOLEAN : RunnerStatus(reachable)
  \/ \E broker_up \in BOOLEAN : RouterAccept(broker_up)
  \/ TaskBegin
  \/ \E ok \in BOOLEAN : Markdown(ok)
  \/ \E ok \in BOOLEAN : Convert(ok)
  \/ \E ok \in BOOLEAN : MinioInit(ok)
  \/ \E result \in {"payload", "TimeoutError", "RuntimeError"} : Parse(result)
  \/ \E ok, meta \in BOOLEAN, last \in {"clear_prefix", "upload_bundle", "upload_meta"} :
       Upload(ok, last, meta)
  \/ RunnerFinally
  \/ WrapperFinally
  \/ \E path \in {RnWorkspace, RnSource, RnConverted} : Vanish(path)

RunnerSpec == RunnerInit /\ [][RunnerNext]_vars

(***************************************************************************)
(* Single-stage job: properties                                            *)
(***************************************************************************)
\* C10: when the task has exited, however its body ended, the upload, the
\* converted PDF and every other path of the cleanup set and the workspace
\* directory no longer exist; the task's final state is the one its body
\* decided, also when cleanup found a path already missing. A request refused
\* because the broker is down leaves no workspace either.
C10_SingleStageCleanup ==
  /\ rnPc = "done" =>
       /\ RnSource \notin rnFs
       /\ RnConverted \notin rnFs
       /\ rnCleanup \cap rnFs = {}
       /\ RnWorkspace \notin rnFs
       /\ rnExit = rnBody
       /\ rnOutcome = (IF rnBody = "payload" THEN "SUCCESS" ELSE "FAILURE")
  /\ rnPc = "unavailable" => rnFs = {}

\* C10 witness: an office upload was converted, the parse timed out, the
\* upload was already missing at cleanup, and the task has exited in FAILURE
C10_Witness ==
  /\ rnPc = "done"
  /\ rnIn.ext \in CONVERTIBLE_OFFICE_EXTENSIONS
  /\ rnBody = "TimeoutError"
  /\ rnCleanup = {RnSource, RnConverted}
  /\ rnMissed = {RnSource}
  /\ rnOutcome = "FAILURE"

\* C11: a task is on the urgent queue exactly when the priority sent is the
\* string "urgent", and on the normal queue for every other value.
C11_UrgentExactly ==
  rnQueue # "" =>
    rnQueue = (IF rnIn.priority = "urgent" THEN CELERY_TASK_URGENT_QUEUE
               ELSE CELERY_TASK_MINERU_QUEUE)


\* C12: a two-stage job submitted with priority "urgent" has its parse,
\* dispatch, vision and merge tasks on the four urgent queues that
\* resolve_two_stage_queues gives, and a job of any other priority has all four
\* on the normal queues.
C12_TwoStageQueuesFollowPriority ==
  tsStage # "none" =>
    LET want == resolve_two_stage_queues(tsIn.priority)
        used == SubmitQueues(RouterCall(tsIn))
    IN  /\ used.parse = want.parse
        /\ used.dispatch = want.dispatch
        /\ \A i \in 1..Len(tsVision) : tsVision[i].queue = want.vision
        /\ \A k \in 1..Len(tsMergeCalls) : tsMergeCalls[k].queue = want.merge


(***************************************************************************)
(* One task message: broker, worker, result backend, status endpoint       *)
(***************************************************************************)
MaxDeliveries == 2

TaskNames == {"mineru.parse", "mineru.parse_images", "two_stage.parse",
              "two_stage.dispatch", "two_stage.vision", "two_stage.merge"}

\* @celery_app.task(name=..., acks_late=True): the two-stage tasks only; the
\* single-stage tasks and celery_app.conf leave task_acks_late at its default
acks_late(name) ==
  name \in {"two_stage.parse", "two_stage.dispatch", "two_stage.vision", "two_stage.merge"}

\* two_stage_task_status: every branch returns a plain dict, which FastAPI
\* sends with status 200
two_stage_task_status(reachable, state, info) ==
  IF ~reachable
    THEN [backend |-> "down", http |-> 503, state |-> "", result |-> FALSE, error |-> ""]
  ELSE IF state = "SUCCESS"
    THEN [backend |-> "up", http |-> 200, state |-> state, result |-> TRUE, error |-> ""]
  ELSE IF state \in {"FAILURE", "REVOKED"}
    THEN [backend |-> "up", http |-> 200, state |-> state, result |-> FALSE,
          error |-> IF info # "" THEN info ELSE state]
  ELSE [backend |-> "up", http |-> 200, state |-> state, result |-> FALSE, error |-> ""]

\* the task has been accepted by the broker
CeleryInit ==
  /\ load = [tasks |-> 0, pipelines |-> {"default"}]
  /\ gpuCount = 1
  /\ env = NoEnv
  /\ SchedulerCreated
  /\ TwoStageAtRest
  /\ RunnerAtRest
  /\ StoreAtRest
  /\ ChunksAtRest
  /\ UrlsAtRest
  /\ VisionAtRest
  /\ SizeFilterAtRest
  /\ ctName \in TaskNames
  /\ ctMsg = "queued"
  /\ ctWorker = FALSE
  /\ ctState = "PENDING"
  /\ ctInfo = ""
  /\ ctRuns = 0
  /\ ctPoll = NoAnswer

\* a worker takes the message: it is acknowledged on receipt unless the task
\* is acks_late; task_track_started makes the state STARTED
Deliver ==
  /\ ctMsg = "queued"
  /\ ~ctWorker
  /\ ctRuns < MaxDeliveries
  /\ ctWorker' = TRUE
  /\ ctRuns' = ctRuns + 1
  /\ ctMsg' = IF acks_late(ctName) THEN "unacked" ELSE "gone"
  /\ ctState' = "STARTED"
  /\ UNCHANGED <<ctName, ctInfo, ctPoll>>
  /\ UNCHANGED notCelery

\* the task function returns or raises; an acks_late message is acknowledged
\* now. info: the payload, or the text of the exception (which may be empty)
Finish(state, info) ==
  /\ ctWorker
  /\ ctWorker' = FALSE
  /\ ctState' = state
  /\ ctInfo' = info
  /\ ctMsg' = "gone"
  /\ UNCHANGED <<ctName, ctRuns, ctPoll>>
  /\ UNCHANGED notCelery

\* the worker dies while the task runs. whole: the worker and its connection
\* are gone, and the broker puts an unacknowledged message back on the queue.
\* Otherwise only the pool process running the task died: the worker records
\* WorkerLostError and, task_reject_on_worker_lost being unset, acknowledges
\* the message
WorkerLost(whole) ==
  /\ ctWorker
  /\ ctWorker' = FALSE
  /\ IF whole
       THEN /\ ctMsg' = IF ctMsg = "unacked" THEN "queued" ELSE ctMsg
            /\ UNCHANGED <<ctState, ctInfo>>
       ELSE /\ ctMsg' = "gone"
            /\ ctState' = "FAILURE"
            /\ ctInfo' = "WorkerLostError"
  /\ UNCHANGED <<ctName, ctRuns, ctPoll>>
  /\ UNCHANGED notCelery

\* the task is revoked before a worker runs it: the worker that receives the
\* message discards it
Revoke ==
  /\ ctMsg = "queued"
  /\ ctState = "PENDING"
  /\ ctState' = "REVOKED"
  /\ ctInfo' = "revoked"
  /\ ctMsg' = "gone"
  /\ UNCHANGED <<ctName, ctWorker, ctRuns, ctPoll>>
  /\ UNCHANGED notCelery

\* GET .../task/{task_id}
Status(reachable) ==
  /\ ctPoll' = IF acks_late(ctName)
                 THEN two_stage_task_status(reachable, ctState, ctInfo)
                 ELSE mineru_task_status(reachable, ctState, ctInfo)
  /\ UNCHANGED <<ctName, ctMsg, ctWorker, ctState, ctInfo, ctRuns>>
  /\ UNCHANGED notCelery

CeleryNext ==
  \/ Deliver
  \/ \E info \in {"payload"} : Finish("SUCCESS", info)
  \/ \E info \in {"", "exc"} : Finish("FAILURE", info)
  \/ \E whole \in BOOLEAN : WorkerLost(whole)
  \/ Revoke
  \/ \E reachable \in BOOLEAN : Status(reachable)

CelerySpec == CeleryInit /\ [][CeleryNext]_vars

\* C13: the status endpoints answer with a result only in SUCCESS, with an
\* error only in FAILURE or REVOKED, with neither in PENDING or STARTED; the
\* HTTP status is 503 when the backend cannot be reached, 500 in FAILURE and
\* REVOKED, and 200 in every other state.
C13_StatusContract ==
  ctPoll # NoAnswer =>
    IF ctPoll.backend = "down"
      THEN ctPoll.http = 503
      ELSE /\ ctPoll.result => ctPoll.state = "SUCCESS"
           /\ ctPoll.error # "" => ctPoll.state \in {"FAILURE", "REVOKED"}
           /\ ctPoll.state \in {"PENDING", "STARTED"} => ~ctPoll.result /\ ctPoll.error = ""
           /\ ctPoll.http = IF ctPoll.state \in {"FAILURE", "REVOKED"} THEN 500 ELSE 200

\* C15: a task whose worker died before the task finished is on the queue
\* again, to be delivered once more, whichever of the six tasks it is.
C15_AtLeastOnce ==
  (ctName # "" /\ ~ctWorker /\ (ctState = "STARTED" \/ ctInfo = "WorkerLostError"))
    => ctMsg = "queued"


\* C14: a single-stage submission that fails validation (an extension that is
\* missing or not accepted, save_to_minio without the object-store
\* credentials, save_to_minio with a blank prefix) is refused before dispatch:
\* no task message is ever published for it.
C14_ValidationBeforeDispatch ==
  (\/ Invalid(rnIn)
   \/ rnIn.save_to_minio /\ ~rnIn.credentials
   \/ rnIn.save_to_minio /\ rnIn.prefix = " ")
    => rnQueue = ""


\* C16 (as claimed): with more submissions than GPUs, the largest and the
\* smallest per-GPU pending count differ by at most 1 in every reachable state,
\* whatever the interleaving of submits and completions.
C16_Original ==
  load.tasks > gpuCount =>
    \A g, h \in GPUs : pending[g] - pending[h] <= 1

\* C16: with more submissions than GPUs, the largest and the smallest per-GPU
\* pending count differ by at most 1 in every reachable state in which no
\* done-callback has yet decremented a counter.
C16_BalancedUntilCompletion ==
  (load.tasks > gpuCount /\ \A t \in Tasks : tpc[t] # "done") =>
    \A g, h \in GPUs : pending[g] - pending[h] <= 1

C16_Witness ==
  /\ load.tasks > gpuCount
  /\ gpuCount = 2
  /\ pending[1] = 2 /\ pending[2] = 1
  /\ \A t \in Tasks : tpc[t] # "done"


MaxPages == 2

Jobs == {1, 2}

\* f"{object_prefix}pages/page_{page_number:04d}.jpg"
PageObject(n) == "pages/page_000" \o ToString(n) \o ".jpg"

\* the object names under prefix/, in the order list_objects returns them
ObjectNames ==
  <<"meta.txt">> \o [n \in 1..MaxPages |-> PageObject(n)] \o <<"parsed.json", "source.pdf">>

\* the objects a run writes: upload_pdf_bundle, and upload_meta_text when
\* minio_meta is not None
BundleNames(pages, meta) ==
  {"source.pdf", "parsed.json"} \cup {PageObject(n) : n \in 1..pages}
    \cup (IF meta THEN {"meta.txt"} ELSE {})

\* clear_prefix that lists nothing
ListNothing(store) == <<>>

\* clear_prefix: client.list_objects(bucket, prefix=..., recursive=True)
ListObjects(store) == SelectSeq(ObjectNames, LAMBDA name : store[name] # 0)

\* a job is between its clear_prefix and its last upload
Uploading(j) == osJob[j].pc \in {"clear", "json", "pages", "meta"}

\* the prefix is empty, neither job has begun
StoreInit ==
  /\ load = [tasks |-> 0, pipelines |-> {"default"}]
  /\ gpuCount = 1
  /\ env = NoEnv
  /\ SchedulerCreated
  /\ TwoStageAtRest
  /\ RunnerAtRest
  /\ CeleryAtRest
  /\ ChunksAtRest
  /\ UrlsAtRest
  /\ VisionAtRest
  /\ SizeFilterAtRest
  /\ osStore = [name \in {ObjectNames[i] : i \in 1..Len(ObjectNames)} |-> 0]
  /\ osJob \in [Jobs -> [pages : 1..MaxPages, meta : BOOLEAN, pc : {"idle"},
                         listed : {<<>>}, page : {1}, alone : {TRUE}]]
  /\ osLast = 0

\* _maybe_upload_minio calls upload_pdf_assets; clear_prefix lists the objects
\* under prefix/
ClearPrefix(j) ==
  /\ osJob[j].pc = "idle"
  /\ LET concurrent == \E k \in Jobs : k # j /\ Uploading(k)
     IN  osJob' = [k \in Jobs |->
                     IF k = j
                       THEN [osJob[j] EXCEPT !.pc = "clear", !.listed = ListObjects(osStore),
                                             !.alone = ~concurrent]
                     ELSE IF Uploading(k) THEN [osJob[k] EXCEPT !.alone = FALSE]
                     ELSE osJob[k]]
  /\ UNCHANGED <<osStore, osLast>>
  /\ UNCHANGED notStore

\* clear_prefix: client.remove_object for the next listed object
RemoveObject(j) ==
  /\ osJob[j].pc = "clear"
  /\ osJob[j].listed # <<>>
  /\ osStore' = [osStore EXCEPT ![Head(osJob[j].listed)] = 0]
  /\ osJob' = [osJob EXCEPT ![j].listed = Tail(@)]
  /\ UNCHANGED osLast
  /\ UNCHANGED notStore

\* upload_pdf_bundle: upload_file(... source.pdf ...)
UploadPdf(j) ==
  /\ osJob[j].pc = "clear"
  /\ osJob[j].listed = <<>>
  /\ osStore' = [osStore EXCEPT !["source.pdf"] = j]
  /\ osJob' = [osJob EXCEPT ![j].pc = "json"]
  /\ UNCHANGED osLast
  /\ UNCHANGED notStore

\* upload_pdf_bundle: upload_bytes(... parsed.json ...)
UploadJson(j) ==
  /\ osJob[j].pc = "json"
  /\ osStore' = [osStore EXCEPT !["parsed.json"] = j]
  /\ osJob' = [osJob EXCEPT ![j].pc = "pages"]
  /\ UNCHANGED osLast
  /\ UNCHANGED notStore

\* upload_pdf_bundle: the next page image; after the last one the bundle is
\* complete and _maybe_upload_minio goes on to meta.txt or returns
UploadPage(j) ==
  /\ osJob[j].pc = "pages"
  /\ LET n == osJob[j].page
         last == n = osJob[j].pages
         ends == last /\ ~osJob[j].meta
     IN  /\ osStore' = [osStore EXCEPT ![PageObject(n)] = j]
         /\ osJob' = [osJob EXCEPT ![j].page = n + 1,
                                   ![j].pc = IF ~last THEN "pages"
                                             ELSE IF osJob[j].meta THEN "meta" ELSE "done"]
         /\ osLast' = IF ends THEN j ELSE osLast
  /\ UNCHANGED notStore

\* upload_meta_text
UploadMeta(j) ==
  /\ osJob[j].pc = "meta"
  /\ osStore' = [osStore EXCEPT !["meta.txt"] = j]
  /\ osJob' = [osJob EXCEPT ![j].pc = "done"]
  /\ osLast' = j
  /\ UNCHANGED notStore

\* a request to the store raises: HTTPException(500) ends the job
StoreError(j) ==
  /\ Uploading(j)
  /\ osJob' = [osJob EXCEPT ![j].pc = "failed"]
  /\ osLast' = j
  /\ UNCHANGED osStore
  /\ UNCHANGED notStore

StoreNext ==
  \/ \E j \in Jobs : ClearPrefix(j)
  \/ \E j \in Jobs : RemoveObject(j)
  \/ \E j \in Jobs : UploadPdf(j)
  \/ \E j \in Jobs : UploadJson(j)
  \/ \E j \in Jobs : UploadPage(j)
  \/ \E j \in Jobs : UploadMeta(j)
  \/ \E j \in Jobs : StoreError(j)

StoreSpec == StoreInit /\ [][StoreNext]_vars

\* C18: when a run that no other run overlapped has succeeded, and nothing
\* has touched the prefix since, the objects under prefix/ are exactly that
\* run's bundle: source.pdf, parsed.json, its page images, and meta.txt only
\* if it supplied a meta string; nothing of an earlier run is left.
C18_RerunLeavesOwnBundle ==
  \A j \in Jobs :
    (/\ osJob # <<>>
     /\ osLast = j
     /\ osJob[j].pc = "done"
     /\ osJob[j].alone
     /\ \A k \in Jobs : ~Uploading(k))
      => \A i \in 1..Len(ObjectNames) :
           osStore[ObjectNames[i]]
             = IF ObjectNames[i] \in BundleNames(osJob[j].pages, osJob[j].meta) THEN j ELSE 0

\* C18 witness: job 2 re-ran the upload after job 1 had finished a larger
\* bundle with meta.txt, and the prefix holds job 2's smaller bundle
C18_Witness ==
  /\ osJob # <<>>
  /\ osLast = 2
  /\ osJob[1].pc = "done" /\ osJob[2].pc = "done"
  /\ osJob[1].alone /\ osJob[2].alone
  /\ osJob[1].meta /\ ~osJob[2].meta
  /\ osJob[1].pages > osJob[2].pages
  /\ osStore["meta.txt"] = 0
  /\ osStore["source.pdf"] = 2

\* C19: once two jobs that uploaded to the same prefix have both finished,
\* however their steps interleaved, the objects under prefix/ are the complete
\* bundle of exactly one of them.
C19_ConcurrentUploadsOneBundle ==
  (osJob # <<>> /\ \A j \in Jobs : osJob[j].pc = "done")
    => \E j \in Jobs :
         \A i \in 1..Len(ObjectNames) :
           osStore[ObjectNames[i]]
             = IF ObjectNames[i] \in BundleNames(osJob[j].pages, osJob[j].meta) THEN j ELSE 0


(***************************************************************************)
(* From parser output to result: header, footer and page_number items      *)
(*   single stage: _actual_parse in the child, then _parse_with_scheduler  *)
(*   two stage: _merge_content                                             *)
(***************************************************************************)
\* the items of the parser output that matter here
ChunkKinds ==
  { [BlankItem EXCEPT !.text = <<"A">>],
    [BlankItem EXCEPT !.type = "header", !.text = <<"H">>],
    [BlankItem EXCEPT !.type = "header", !.text = <<Space>>, !.page_idx = <<1>>],
    [BlankItem EXCEPT !.type = "footer", !.text = <<"F">>, !.page_idx = <<1>>],
    [BlankItem EXCEPT !.text = <<"B">>, !.page_idx = <<1>>],
    [BlankItem EXCEPT !.type = "page_number", !.text = <<"2">>, !.page_idx = <<1>>],
    [BlankItem EXCEPT !.text = <<Surrogate>>, !.page_idx = <<1>>],
    [BlankItem EXCEPT !.type = "image", !.img_caption = <<Space>>, !.page_idx = <<1>>],
    [BlankItem EXCEPT !.type = "table", !.table_caption = <<Surrogate>>, !.page_idx = <<1>>] }

\* _actual_parse, default and sci pipelines: the text of the chunk made from
\* an item; <<>> when the loop continues without a chunk (the final else
\* takes every type that is not text, equation, list, image or table)
ParsedText(item) ==
  IF item.type \in {"text", "equation"}
    THEN IF Strip(item.text) THEN CleanText(item.text) ELSE <<>>
  ELSE IF item.type = "list"
            /\ ((\E k \in 1..Len(item.list_items) : item.list_items[k] \notin {Space, NL})
                  \/ Strip(item.text))
    THEN list_text(item)
  ELSE IF item.type = "image" /\ (item.img_caption # <<>> \/ item.img_footnote # <<>>)
    THEN image_text(item)
  ELSE IF item.type = "table"
            /\ (item.table_caption # <<>> \/ item.table_body # <<>>
                  \/ item.table_footnote # <<>>)
    THEN table_text(item)
  ELSE <<>>

\* _actual_parse: the "result" list it returns. The call of parse_doc is taken
\* to bind its arguments and return the content list; as written it passes
\* return_markdown=..., a keyword that parse_doc and parse_with_images do not
\* declare
RECURSIVE ParseFrom(_, _, _)
ParseFrom(content, i, chunk_type) ==
  IF i > Len(content) THEN <<>>
  ELSE LET item == content[i]
           text == ParsedText(item)
           type == IF chunk_type /\ item.type = "text" /\ item.text_level THEN "title" ELSE ""
       IN  (IF text = <<>> THEN <<>> ELSE <<Chunk(text, item, i, type)>>)
             \o ParseFrom(content, i + 1, chunk_type)

_actual_parse(content_list, chunk_type) == ParseFrom(content_list, 1, chunk_type)

\* parse_with_images (the images pipeline of _actual_parse): its loop over
\* content_list has the branches of _merge_content's loop, and no sort; the
\* items here have no img_path, so no vision result is looked up
parse_with_images(content_list, chunk_type) == MergeFrom(content_list, 1, <<>>, chunk_type)

\* _parse_with_scheduler: the filter on it.get("type"), the header-first
\* sort, and type=None without chunk_type
_parse_with_scheduler(result, chunk_type) ==
  LET ordered_chunks ==
        SelectSeq(result,
                  LAMBDA it : IF chunk_type THEN it.type # "page_number"
                              ELSE it.type \notin {"header", "footer", "page_number"})
      sorted == IF chunk_type THEN HeadersFirst(ordered_chunks) ELSE ordered_chunks
  IN  [k \in 1..Len(sorted) |->
         [sorted[k] EXCEPT !.type = IF chunk_type THEN sorted[k].type ELSE ""]]

\* _maybe_upload_minio: chunks_with_pages, the (text, page_number, type) of
\* the items with item.text and item.text.strip()
chunks_with_pages(items) ==
  LET kept == SelectSeq(items, LAMBDA it : it.text # <<>> /\ Strip(it.text))
  IN  [k \in 1..Len(kept) |-> <<kept[k].text, kept[k].page_number, kept[k].type>>]

\* upload_pdf_assets: payload_for_json, an entry has the "type" key only for
\* a truthy element_type
upload_pdf_assets(chunks) ==
  [k \in 1..Len(chunks) |->
     IF chunks[k][3] # ""
       THEN [text |-> chunks[k][1], page_number |-> chunks[k][2], type |-> chunks[k][3]]
       ELSE [text |-> chunks[k][1], page_number |-> chunks[k][2]]]

\* build_parsed_payload_json: json.dumps(..., ensure_ascii=False).encode("utf-8")
\* raises on a lone surrogate
Utf8Encodes(text) == \A i \in 1..Len(text) : text[i] # Surrogate

\* parsed.json read back as chunks: a missing "type" reads as None
ReadBack(entries) ==
  [k \in 1..Len(entries) |->
     [text |-> entries[k].text, page_number |-> entries[k].page_number,
      type |-> IF "type" \in DOMAIN entries[k] THEN entries[k].type ELSE ""]]

\* item.model_dump() of an item of the result
model_dump(item) == [text |-> item.text, page_number |-> item.page_number, type |-> item.type]

\* the parser has produced its content list
ChunksInit ==
  /\ load = [tasks |-> 0, pipelines |-> {"default"}]
  /\ gpuCount = 1
  /\ env = NoEnv
  /\ SchedulerCreated
  /\ TwoStageAtRest
  /\ RunnerAtRest
  /\ CeleryAtRest
  /\ StoreAtRest
  /\ UrlsAtRest
  /\ VisionAtRest
  /\ SizeFilterAtRest
  /\ ckIn \in [doc : UNION { [1..n -> ChunkKinds] : n \in 0..MaxItems },
               chunk_type : BOOLEAN,
               path : {"single_stage", "single_stage_images", "two_stage"}]
  /\ ckPayload = <<>>
  /\ ckItems = <<>>
  /\ ckPc = "parse"
  /\ ckJson = <<>>

\* the watchdog child of a mineru.parse or mineru.parse_images task runs
\* _actual_parse
ActualParse ==
  /\ ckPc = "parse"
  /\ ckIn.path # "two_stage"
  /\ ckPayload' = IF ckIn.path = "single_stage_images"
                    THEN parse_with_images(ckIn.doc, ckIn.chunk_type)
                    ELSE _actual_parse(ckIn.doc, ckIn.chunk_type)
  /\ ckPc' = "filter"
  /\ UNCHANGED <<ckIn, ckItems, ckJson>>
  /\ UNCHANGED notChunks

\* run_mineru_local_job: _parse_with_scheduler on the future's payload
ParseWithScheduler ==
  /\ ckPc = "filter"
  /\ ckItems' = _parse_with_scheduler(ckPayload, ckIn.chunk_type)
  /\ ckPc' = "done"
  /\ UNCHANGED <<ckIn, ckPayload, ckJson>>
  /\ UNCHANGED notChunks

\* merge_task: _merge_content on the content list (no image jobs here)
MergeContent ==
  /\ ckPc = "parse"
  /\ ckIn.path = "two_stage"
  /\ ckItems' = _merge_content(ckIn.doc, <<>>, ckIn.chunk_type)
  /\ ckPc' = "done"
  /\ UNCHANGED <<ckIn, ckPayload, ckJson>>
  /\ UNCHANGED notChunks

\* run_mineru_local_job with save_to_minio: _maybe_upload_minio writes
\* parsed.json; when the bytes cannot be made the upload, and the job, fail
MaybeUploadMinio ==
  /\ ckPc = "done"
  /\ ckIn.path # "two_stage"
  /\ LET payload_for_json == upload_pdf_assets(chunks_with_pages(ckItems))
     IN  IF \A k \in 1..Len(payload_for_json) : Utf8Encodes(payload_for_json[k].text)
           THEN ckJson' = payload_for_json /\ ckPc' = "uploaded"
           ELSE ckPc' = "upload_failed" /\ UNCHANGED ckJson
  /\ UNCHANGED <<ckIn, ckPayload, ckItems>>
  /\ UNCHANGED notChunks

ChunksNext ==
  \/ ActualParse
  \/ ParseWithScheduler
  \/ MergeContent
  \/ MaybeUploadMinio

ChunksSpec == ChunksInit /\ [][ChunksNext]_vars

C21_HeadersFirstStable ==
  (ckPc = "done" /\ ckIn.chunk_type) =>
    \A k, l \in 1..Len(ckItems) :
      k < l =>
        /\ ckItems[l].type = "header" => ckItems[k].type = "header"
        /\ (ckItems[k].type = "header") = (ckItems[l].type = "header")
             => ckItems[k].item < ckItems[l].item

\* C21 witness: the single-stage runner moved a header in front of two chunks
\* that precede it in the document, the second of them a footer
C21_Witness ==
  /\ ckPc = "done"
  /\ ckIn.chunk_type
  /\ ckIn.path = "two_stage"
  /\ Len(ckItems) = 3
  /\ ckItems[1].type = "header" /\ ckItems[1].item = 3
  /\ ckItems[2].type = "" /\ ckItems[2].item = 1
  /\ ckItems[3].type = "footer" /\ ckItems[3].item = 2


\* C22: a task whose watchdog child ended by itself without a result message
\* (the worker never had to terminate it) does not end as a hard timeout: its
\* future carries a parse error.
C22_CrashIsParseError ==
  \A t \in Tasks :
    (Resolved(t) /\ child[t] = "dead" /\ ~termSent[t] /\ fut[t].kind # "payload")
      => fut[t].kind = "RuntimeError"


\* C23: when the vision call of an image job failed, the vision result of the
\* job carries the error, and if the image has caption or footnote text the
\* merged output has a chunk for the image whose text is exactly that text.
C23_VisionFailureFallsBack ==
  tsStage = "SUCCESS" =>
    \A r \in 1..Len(tsVision) :
      tsVision[r].outcome = "raises" =>
        /\ tsVision[r].result.error # ""
        /\ tsVision[r].job.base_text # <<>> =>
             \E k \in 1..Len(tsResult) :
               /\ tsPayload.content_list[tsResult[k].item].image_seq = tsVision[r].job.seq
               /\ tsResult[k].text = tsVision[r].job.base_text


C25_ReturnedIdIsMerge ==
  tsBackend # <<>> =>
    LET record == tsBackend[SubmittedId]
        answer == two_stage_task_status(TRUE, record.state, "")
    IN  answer.state = "SUCCESS" =>
          /\ tsStage = "SUCCESS"
          /\ record.value = MergePayload(tsResult)

\* C25 witness: a job with an image went through parse, dispatch, the chord
\* and merge, and the returned id holds merge's payload
C25_Witness ==
  /\ tsBackend # <<>>
  /\ tsStage = "SUCCESS"
  /\ Len(tsVision) > 0
  /\ tsResult # <<>>
  /\ tsBackend[ParseId].state = "SUCCESS"
  /\ tsBackend[SubmittedId] = Stored("SUCCESS", MergePayload(tsResult))


\* C26: every chunk of the result, of the single-stage runner and of merge
\* alike, has a text that is not empty and holds no surrogate code unit,
\* whatever the items of the parser output were.
C26_ChunkTextNonEmpty ==
  ckPc = "done" =>
    \A k \in 1..Len(ckItems) :
      /\ ckItems[k].text # <<>>
      /\ \A i \in 1..Len(ckItems[k].text) : ckItems[k].text[i] # Surrogate


C28_NoEmptyParseHandedOn ==
  tsResponse # <<>> =>
    LET empty == \/ tsResponse.returned = "None"
                 \/ tsResponse.content_list \in {None, <<<<>>>>}
        raised == tsResponse.raised # ""
        failed == /\ tsStage = "FAILURE"
                  /\ tsCause = "parse"
                  /\ tsBackend[ParseId].state = "FAILURE"
                  /\ tsBackend[DispatchId].state # "STARTED"
                  /\ tsVision = <<>> /\ tsMergeCalls = <<>>
    IN  /\ (empty /\ ~raised) =>
             /\ failed
             /\ tsBackend[ParseId].value.error \in {ReturnedNoContent, EmptyContentList}
        /\ raised =>
             /\ failed
             /\ tsBackend[ParseId].value.error = ParseDocRaised \o tsResponse.raised

\* C29: when do_parse returned None, parse_doc has raised the RuntimeError
\* "do_parse returned None"; it has not returned to parse_task.
C29_ParseDocRaisesOnNone ==
  (tsResponse # <<>> /\ tsResponse.do_parse = "nothing") =>
    /\ tsResponse.raised = "do_parse returned None"
    /\ tsResponse.returned = ""


\* the parser's content list is in page order (MinerU makes it page by page)
PageOrdered(doc) ==
  \A i, j \in 1..Len(doc) : i < j => doc[i].page_idx[1] <= doc[j].page_idx[1]

CleanupInit ==
  /\ load = [tasks |-> 0, pipelines |-> {"default"}]
  /\ gpuCount = 1
  /\ env = NoEnv
  /\ SchedulerCreated
  /\ CeleryAtRest
  /\ StoreAtRest
  /\ ChunksAtRest
  /\ UrlsAtRest
  /\ VisionAtRest
  /\ SizeFilterAtRest
  /\ tsIn \in [doc : {<<>>}, chunk_type : {FALSE}, converted : BOOLEAN, priority : {"normal"}]
  /\ tsStage = "cleanup"
  /\ tsCause = ""
  /\ tsFs \in SUBSET JobPaths
  /\ tsPayload = [workspace |-> SubmitPayload(RouterCall(tsIn)).workspace,
                  upload_workspace |-> SubmitPayload(RouterCall(tsIn)).upload_workspace,
                  extra_cleanup |-> SubmitPayload(RouterCall(tsIn)).extra_cleanup,
                  content_list |-> <<>>, image_jobs |-> <<>>, chunk_type |-> FALSE]
  /\ tsVision = <<>>
  /\ tsMergeCalls = <<>>
  /\ tsResult = <<>>
  /\ tsBackend = <<>>
  /\ tsResponse = <<>>
  /\ tsSlot = [task |-> "", i |-> 0]
  /\ rnIn = [ext |-> ".pdf", save_to_minio |-> FALSE, credentials |-> FALSE, prefix |-> "",
             priority |-> "normal", task |-> "mineru.parse"]
  /\ rnQueue = ""
  /\ rnPrefix = ""
  /\ rnPc = "cleanup"
  /\ rnFs \in {fs \in SUBSET {RnWorkspace, RnSource, RnConverted} :
                 RnSource \in fs => RnWorkspace \in fs}
  /\ rnCleanup \in {{RnSource}, {RnSource, RnConverted}}
  /\ rnProcessing = ""
  /\ rnMinio = FALSE
  /\ rnBody = ""
  /\ rnExit = ""
  /\ rnMissed = {}
  /\ rnOutcome = ""
  /\ rnOps = <<>>

\* the position after one more run of a cleanup
AfterCleanup(pc) == IF pc = "cleanup" THEN "cleaned" ELSE "cleaned_twice"

\* merge_task's cleanup statements run
MergeCleanupRun ==
  /\ tsStage \in {"cleanup", "cleaned"}
  /\ tsFs' = merge_cleanup(tsFs, tsPayload).fs
  /\ tsCause' = IF merge_cleanup(tsFs, tsPayload).raised THEN "raised" ELSE tsCause
  /\ tsStage' = AfterCleanup(tsStage)
  /\ UNCHANGED <<tsIn, tsPayload, tsVision, tsMergeCalls, tsResult, tsBackend, tsResponse>>
  /\ UNCHANGED notTwoStage

\* the finally clauses of run_mineru_local_job and of run_mineru_task run
RunnerCleanupRun ==
  /\ rnPc \in {"cleanup", "cleaned"}
  /\ LET inner == runner_cleanup(rnFs, rnCleanup)
         outer == wrapper_cleanup(inner.fs, RnWorkspace)
     IN  /\ rnFs' = outer.fs
         /\ rnMissed' = rnCleanup \ rnFs
         /\ rnExit' = IF inner.raised \/ outer.raised THEN "raised" ELSE rnExit
  /\ rnPc' = AfterCleanup(rnPc)
  /\ UNCHANGED <<rnIn, rnOps, rnQueue, rnPrefix, rnCleanup, rnProcessing, rnMinio, rnBody, rnOutcome>>
  /\ UNCHANGED notRunner

CleanupNext ==
  \/ MergeCleanupRun
  \/ RunnerCleanupRun

CleanupSpec == CleanupInit /\ [][CleanupNext]_vars

\* C31: a second run of the cleanup, on paths the first run has deleted,
\* raises nothing and leaves the file system as the first run left it; this
\* holds for merge_task's cleanup and for the single-stage task's cleanup.
C31_CleanupIdempotent ==
  [][/\ (tsStage = "cleaned" /\ tsStage' = "cleaned_twice") =>
          /\ tsFs' = tsFs
          /\ tsCause' = ""
     /\ (rnPc = "cleaned" /\ rnPc' = "cleaned_twice") =>
          /\ rnFs' = rnFs
          /\ rnExit' = ""]_vars

\* C31 witness: both cleanups have run twice, on a converted upload, and the
\* second run of the single-stage one found every cleanup path missing
C31_Witness ==
  /\ tsStage = "cleaned_twice"
  /\ rnPc = "cleaned_twice"
  /\ tsIn.converted
  /\ tsFs = {}
  /\ tsCause = ""
  /\ rnCleanup = {RnSource, RnConverted}
  /\ rnMissed = rnCleanup
  /\ rnFs = {}
  /\ rnExit = ""


(***************************************************************************)
(* GPU scheduler: an executor that refuses the work item                   *)
(***************************************************************************)
\* submit: exec_.pool.submit(...) raises (the executor's process has died, or
\* its worker process cannot be started); the exception leaves submit, no
\* future exists and no done-callback was registered
PoolSubmitRaises(t) ==
  /\ tpc[t] = "picked"
  /\ tpc' = [tpc EXCEPT ![t] = "raised"]
  /\ UNCHANGED notSched
  /\ UNCHANGED <<load, gpuCount, env, pending, lock, tgpu, tpipe, fut, child, msg, termSent,
                 queue, running>>

BrokenPoolNext ==
  \/ SchedNext
  \/ \E t \in Tasks : PoolSubmitRaises(t)

BrokenPoolSpec == SchedInit /\ [][BrokenPoolNext]_vars

\* the tasks a GPU's counter stands for: picked for that GPU (the counter was
\* incremented) and their done-callback has not run yet
Counted(g) ==
  {t \in Tasks : tgpu[t] = g /\ tpc[t] \in {"picked", "queued", "running", "resolved"}}

\* C32: each GPU's pending count is never negative and equals the number of
\* tasks handed to that GPU whose completion has not been counted yet; a submit
\* whose hand-over to the worker pool raised is not among them.
C32_PendingTracksInFlight ==
  \A g \in GPUs :
    /\ pending[g] >= 0
    /\ pending[g] = Cardinality(Counted(g))


\* C33: on each GPU the parses start in the order of the submissions to that
\* GPU: a submission joins the GPU's work items at the end, and the task whose
\* parse starts is the oldest work item of that GPU not yet started. Nothing
\* orders the starts of two different GPUs.
C33_FifoPerGpu ==
  [][\A g \in GPUs :
       /\ \/ queue'[g] = queue[g]
          \/ \E t \in Tasks : tpc[t] = "picked" /\ tgpu[t] = g /\ queue'[g] = Append(queue[g], t)
          \/ queue[g] # <<>> /\ queue'[g] = Tail(queue[g])
       /\ (running'[g] # running[g] /\ running'[g] # 0) =>
            /\ queue[g] # <<>>
            /\ running'[g] = Head(queue[g])
            /\ child'[running'[g]] = "alive"]_vars

\* C33 witness: on one GPU a task has completed, the next one is being parsed
\* and a later submission waits behind it.
C33_Witness ==
  \E g \in GPUs, u \in Tasks :
    /\ tgpu[u] = g /\ tpc[u] = "done"
    /\ running[g] # 0 /\ child[running[g]] = "alive"
    /\ Len(queue[g]) >= 1


(***************************************************************************)
(* Two-stage pipeline on a single worker                                   *)
(*                                                                         *)
(* One worker process with concurrency 1 consumes the parse, dispatch,     *)
(* vision and merge queues: it takes a message when its slot is free, runs *)
(* the task, and frees the slot when the task has ended.                   *)
(***************************************************************************)
Idle == [task |-> "", i |-> 0]

\* the task messages waiting on the four queues
Waiting ==
  {[task |-> name, i |-> 0] : name \in {"parse", "dispatch", "merge"} \cap {tsStage}}
    \cup {[task |-> "vision", i |-> i] : i \in {k \in 1..Len(tsVision) :
                                                  tsVision[k].state = "queued"}}

\* dispatch ending only when the result of the merge is there (a blocking
\* wait on the chord inside the task)
replace_waits(stage) == stage \in {"SUCCESS", "FAILURE"}

\* dispatch: raise self.replace(...): the task ends with the replacement sent
replace_ends(stage) == TRUE

\* the task in the slot has ended
TaskEnded(slot) ==
  IF slot.task = "parse" THEN tsStage # "parse"
  ELSE IF slot.task = "dispatch" THEN tsStage # "dispatch" /\ replace_ends(tsStage)
  ELSE IF slot.task = "vision" THEN tsVision[slot.i].state = "done"
  ELSE tsStage \in {"SUCCESS", "FAILURE"}

\* the worker takes a message from one of its queues
WorkerTake(m) ==
  /\ tsSlot = Idle
  /\ m \in Waiting
  /\ tsSlot' = m
  /\ UNCHANGED <<schedVars, tsVars, runVars, ctVars, osVars, ckVars, suVars, vcIn, vcOut, sfIn, sfOut>>

\* the worker runs the task it took
WorkerRun ==
  \/ tsSlot.task = "parse" /\ \E parsed \in {"content", "nothing", "raises"} : ParseTask(parsed)
  \/ tsSlot.task = "dispatch" /\ Dispatch
  \/ tsSlot.task = "vision" /\ \E outcome \in {"text", "empty", "raises"} :
                                  VisionTask(tsSlot.i, outcome)
  \/ tsSlot.task = "merge" /\ MergeTask

\* the task has ended: the slot is free again
WorkerRelease ==
  /\ tsSlot # Idle
  /\ TaskEnded(tsSlot)
  /\ tsSlot' = Idle
  /\ UNCHANGED <<schedVars, tsVars, runVars, ctVars, osVars, ckVars, suVars, vcIn, vcOut, sfIn, sfOut>>

OneWorkerNext ==
  \/ \E m \in [task : {"parse", "dispatch", "vision", "merge"}, i : 0..MaxItems] : WorkerTake(m)
  \/ WorkerRun
  \/ WorkerRelease

\* the worker goes on whenever it has something to do
OneWorkerSpec == TwoStageInit /\ [][OneWorkerNext]_vars /\ WF_vars(OneWorkerNext)

\* C34: a two-stage job served by a single worker that runs one task at a time
\* completes, whatever the number of its image jobs: dispatch occupies the slot
\* only until the chord (or the merge) is sent, never until a vision or merge
\* task has run.
C34_SingleWorkerCompletes ==
  /\ <>(tsStage \in {"SUCCESS", "FAILURE"})
  /\ [](tsSlot.task = "dispatch" =>
          /\ tsMergeCalls = <<>> \/ tsVision = <<>>
          /\ \A i \in 1..Len(tsVision) : tsVision[i].state = "queued"
          /\ tsResult = <<>>)

\* C34 witness: the job of a document with several image jobs has succeeded on
\* the single worker, which is free again.
C34_Witness ==
  /\ tsStage = "SUCCESS"
  /\ Len(tsVision) >= 2
  /\ Len(tsMergeCalls) = 1
  /\ tsSlot = Idle


\* an image item _build_image_jobs makes a job of: it has a path, its file
\* exists and it passes the filters
Accepted(item) ==
  item.type = "image" /\ HasImgPath(item) /\ item.img_exists /\ item.img_passes

\* C35: in the stage-1 result the image jobs carry the numbers 1..n in job
\* order, the annotated items of content_list are exactly the accepted image
\* items, their numbers increase strictly along the content list, each is the
\* seq of the job made of that item, and an image item rejected by a filter or
\* for a missing file carries no number and has no job.
C35_SeqIsOneToN ==
  LET content == tsPayload.content_list
      jobs == tsPayload.image_jobs
      n == Len(jobs)
      annotated == {i \in 1..Len(content) : content[i].image_seq # 0}
  IN  /\ \A k \in 1..n : jobs[k].seq = k
      /\ Cardinality(annotated) = n
      /\ \A i, j \in annotated : i < j => content[i].image_seq < content[j].image_seq
      /\ \A i \in 1..Len(content) : (i \in annotated) <=> Accepted(tsIn.doc[i])
      /\ \A i \in annotated :
           /\ content[i].image_seq \in 1..n
           /\ jobs[content[i].image_seq].img_path = content[i].img_path
           /\ jobs[content[i].image_seq].base_text = image_text(content[i])

\* C35 witness: stage 1 succeeded on a document whose first and third items
\* are accepted images and whose second item is a rejected image.
C35_Witness ==
  /\ tsBackend[ParseId].state = "SUCCESS"
  /\ Len(tsPayload.content_list) = 3
  /\ Len(tsPayload.image_jobs) = 2
  /\ tsPayload.content_list[1].image_seq = 1
  /\ tsPayload.content_list[2].type = "image" /\ tsPayload.content_list[2].image_seq = 0
  /\ tsPayload.content_list[3].image_seq = 2


\* C36: in a single-stage job with object-store persistence the PDF check and
\* the store initialisation come before the GPU submission; the prefix is
\* cleared and objects are uploaded only after the parse has succeeded, the
\* clear before every upload and meta.txt after the bundle; when validation,
\* store initialisation or the parse fails, nothing under the prefix is deleted
\* or written.
C36_StoreAfterParse ==
  LET at(op) == {k \in 1..Len(rnOps) : rnOps[k] = op}
      uploads == at("upload_bundle") \cup at("upload_meta")
      writes == at("clear_prefix") \cup uploads
  IN  /\ (rnIn.save_to_minio /\ at("submit") # {}) =>
            /\ rnIn.ext = ".pdf" \/ rnProcessing = RnConverted
            /\ at("ensure_bucket") # {}
            /\ \A e \in at("ensure_bucket"), s \in at("submit") : e < s
      /\ \A w \in writes : \E s \in at("submit") : s < w
      /\ writes # {} => rnMinio /\ rnBody \in {"", "payload", "UploadError"}
      /\ uploads # {} => at("clear_prefix") # {}
      /\ \A c \in at("clear_prefix"), u \in uploads : c < u
      /\ \A m \in at("upload_meta") : \E b \in at("upload_bundle") : b < m
      /\ rnBody \in {"MineruTaskError", "HTTPException: Missing MinIO field(s)", "MinioError",
                     "TimeoutError", "RuntimeError", "OSError"} => writes = {}
      /\ Cardinality(at("submit")) <= 1 /\ Cardinality(at("clear_prefix")) <= 1

\* C36 witness: a job with persistence and a meta string has succeeded after
\* all five calls.
C36_Witness ==
  /\ rnOutcome = "SUCCESS"
  /\ rnIn.save_to_minio
  /\ rnOps = <<"ensure_bucket", "submit", "clear_prefix", "upload_bundle", "upload_meta">>


(***************************************************************************)
(* Two-stage pipeline: redelivery of late-acknowledged tasks               *)
(*                                                                         *)
(* vision_task and merge_task are declared acks_late=True: the message is  *)
(* acknowledged after the task has returned and its result is stored (and  *)
(* counted by the chord). When the worker is lost, or the broker gives the *)
(* message up, between the return and the acknowledgement, the message is  *)
(* delivered again.                                                        *)
(***************************************************************************)
\* the message of vision task i, which has returned, is back on the queue
VisionRedelivered(i) ==
  /\ i \in 1..Len(tsVision)
  /\ tsVision[i].state = "done"
  /\ tsVision' = [tsVision EXCEPT ![i].state = "redelivered"]
  /\ UNCHANGED <<tsIn, tsStage, tsCause, tsFs, tsPayload, tsMergeCalls, tsResult, tsBackend,
                 tsResponse>>
  /\ UNCHANGED notTwoStage

\* the message of the merge task, which has returned, is back on the queue
MergeRedelivered ==
  /\ tsStage = "SUCCESS"
  /\ tsStage' = "merge"
  /\ UNCHANGED <<tsIn, tsCause, tsFs, tsPayload, tsVision, tsMergeCalls, tsResult, tsBackend,
                 tsResponse>>
  /\ UNCHANGED notTwoStage

RedeliveryNext ==
  \/ TwoStageNext
  \/ \E i \in 1..MaxItems : VisionRedelivered(i)
  \/ MergeRedelivered

\* a job of a PDF upload on the normal queues, without chunk types
RedeliveryInit ==
  /\ TwoStageInit
  /\ ~tsIn.chunk_type
  /\ ~tsIn.converted
  /\ tsIn.priority = "normal"

RedeliverySpec == RedeliveryInit /\ [][RedeliveryNext]_vars

\* C37: while a vision task of the job has yet to start (its message is on the
\* queue, for the first time or again), the job's workspace exists.
C37_WorkspaceOutlivesVision ==
  \A i \in 1..Len(tsVision) :
    tsVision[i].state \in {"queued", "redelivered"} => tsPayload.workspace \in tsFs


(***************************************************************************)
(* Parser-server round robin (_next_server_url)                            *)
(***************************************************************************)
MaxDispatches == 4
Threads == 1..2

\* the lists _resolve_server_urls can give: two servers, three servers, one
\* server, a list that names a server twice
UrlLists == {<<"u1", "u2">>, <<"u1", "u2", "u3">>, <<"u3">>, <<"u2", "u2">>}

notUrls == <<schedVars, tsVars, runVars, ctVars, osVars, ckVars, tsSlot, vcIn, vcOut, sfIn, sfOut>>

UrlsInit ==
  /\ load = [tasks |-> 0, pipelines |-> {"default"}]
  /\ gpuCount = 1
  /\ env = NoEnv
  /\ SchedulerCreated
  /\ TwoStageAtRest
  /\ RunnerAtRest
  /\ CeleryAtRest
  /\ StoreAtRest
  /\ ChunksAtRest
  /\ VisionAtRest
  /\ SizeFilterAtRest
  /\ suCache = <<>>
  /\ suPos = 0
  /\ suLock = 0
  /\ suThread = [t \in Threads |-> [pc |-> "idle", urls |-> <<>>]]
  /\ suLog = <<>>

\* a cycle rebuilt on every call
cache_always_stale(pos, cache, urls) == TRUE

\* _SERVER_URL_CYCLE is None or _SERVER_URL_CACHE != urls_tuple
cache_stale(pos, cache, urls) == pos = 0 \/ cache # urls

\* a thread calls _next_server_url(urls): a single URL is returned at once,
\* without the lock and without a look at the cycle
NextServerUrl(t, urls) ==
  /\ suThread[t].pc = "idle"
  /\ Len(suLog) + Cardinality({u \in Threads : suThread[u].pc # "idle"}) < MaxDispatches
  /\ IF Len(urls) = 1
       THEN /\ suLog' = Append(suLog, [urls |-> urls, idx |-> 1, url |-> urls[1]])
            /\ UNCHANGED suThread
       ELSE /\ suThread' = [suThread EXCEPT ![t] = [pc |-> "called", urls |-> urls]]
            /\ UNCHANGED suLog
  /\ UNCHANGED <<suCache, suPos, suLock>>
  /\ UNCHANGED notUrls

\* with _SERVER_URL_CYCLE_LOCK: the lock is taken
UrlLockAcquire(t) ==
  /\ suThread[t].pc = "called"
  /\ suLock = 0
  /\ suLock' = t
  /\ suThread' = [suThread EXCEPT ![t].pc = "locked"]
  /\ UNCHANGED <<suCache, suPos, suLog>>
  /\ UNCHANGED notUrls

\* if the cycle is None or was built from another list:
\* _SERVER_URL_CYCLE = cycle(urls_tuple); _SERVER_URL_CACHE = urls_tuple
UrlCycleCheck(t) ==
  /\ suThread[t].pc = "locked"
  /\ IF cache_stale(suPos, suCache, suThread[t].urls)
       THEN suCache' = suThread[t].urls /\ suPos' = 1
       ELSE UNCHANGED <<suCache, suPos>>
  /\ suThread' = [suThread EXCEPT ![t].pc = "checked"]
  /\ UNCHANGED <<suLock, suLog>>
  /\ UNCHANGED notUrls

\* return next(_SERVER_URL_CYCLE), leaving the with block
UrlCycleAdvance(t) ==
  /\ suThread[t].pc = "checked"
  /\ suLog' = Append(suLog, [urls |-> suThread[t].urls, idx |-> suPos, url |-> suCache[suPos]])
  /\ suPos' = (suPos % Len(suCache)) + 1
  /\ suLock' = 0
  /\ suThread' = [suThread EXCEPT ![t] = [pc |-> "idle", urls |-> <<>>]]
  /\ UNCHANGED suCache
  /\ UNCHANGED notUrls

UrlsNext ==
  \/ \E t \in Threads, urls \in UrlLists : NextServerUrl(t, urls)
  \/ \E t \in Threads : UrlLockAcquire(t)
  \/ \E t \in Threads : UrlCycleCheck(t)
  \/ \E t \in Threads : UrlCycleAdvance(t)

UrlsSpec == UrlsInit /\ [][UrlsNext]_vars

\* the dispatches that presented a list of two or more URLs, in order
Cycled == SelectSeq(suLog, LAMBDA d : Len(d.urls) >= 2)

\* C38: every dispatch gets a URL of the list it presents. Of the dispatches
\* with a list of two or more URLs, the first gets the first URL of its list;
\* one that presents the list of the dispatch before it gets the URL that
\* follows that dispatch's URL in the list, cyclically; one that presents
\* another list gets the first URL of its list. So n consecutive dispatches
\* with the same list of n different URLs get n different URLs.
C38_RoundRobin ==
  /\ \A k \in 1..Len(suLog) :
       /\ suLog[k].idx \in 1..Len(suLog[k].urls)
       /\ suLog[k].url = suLog[k].urls[suLog[k].idx]
       /\ Len(suLog[k].urls) = 1 => suLog[k].idx = 1
  /\ Cycled # <<>> => Cycled[1].idx = 1
  /\ \A k \in 1..(Len(Cycled) - 1) :
       Cycled[k + 1].idx = IF Cycled[k + 1].urls = Cycled[k].urls
                             THEN (Cycled[k].idx % Len(Cycled[k].urls)) + 1
                             ELSE 1
  /\ \A k \in 1..Len(Cycled) :
       LET urls == Cycled[k].urls
           n == Len(urls)
       IN  (/\ k + n - 1 <= Len(Cycled)
            /\ \A j \in k..(k + n - 1) : Cycled[j].urls = urls
            /\ \A a, b \in 1..n : a # b => urls[a] # urls[b])
           => \A i, j \in k..(k + n - 1) : i # j => Cycled[i].url # Cycled[j].url

\* C38 witness: three dispatches with the two-server list went round the
\* cycle, and a fourth one with the three-server list got its first server.
C38_Witness ==
  /\ Len(suLog) = 4
  /\ \A k \in 1..3 : suLog[k].urls = <<"u1", "u2">>
  /\ suLog[1].url = "u1" /\ suLog[2].url = "u2" /\ suLog[3].url = "u1"
  /\ suLog[4].urls = <<"u1", "u2", "u3">> /\ suLog[4].url = "u1"


(***************************************************************************)
(* vision_completion: the chosen provider and its fallbacks                *)
(***************************************************************************)
NumProviders == 3

\* VisionProvider, in declaration order
Providers == 1..NumProviders

notVision == <<schedVars, tsVars, runVars, ctVars, osVars, ckVars, tsSlot, suVars, sfIn, sfOut>>

\* one call of vision_completion: the provider it resolved, the providers
\* whose credentials are configured, what a call of each provider does
VisionInit ==
  /\ load = [tasks |-> 0, pipelines |-> {"default"}]
  /\ gpuCount = 1
  /\ env = NoEnv
  /\ SchedulerCreated
  /\ TwoStageAtRest
  /\ RunnerAtRest
  /\ CeleryAtRest
  /\ StoreAtRest
  /\ ChunksAtRest
  /\ UrlsAtRest
  /\ SizeFilterAtRest
  /\ vcIn \in [chosen : Providers, credentials : SUBSET Providers,
               does : [Providers -> {"text", "none", "raises"}]]
  /\ vcOut = <<>>

\* a fallback loop that does not pass over the chosen provider
BackupsWithChosen(chosen, credentials) ==
  LET RECURSIVE from(_)
      from(p) == IF p > NumProviders THEN <<>>
                 ELSE (IF p \in credentials THEN <<p>> ELSE <<>>) \o from(p + 1)
  IN  from(1)

\* for backup in VisionProvider: skip the chosen provider and the providers
\* without credentials
Backups(chosen, credentials) ==
  LET RECURSIVE from(_)
      from(p) == IF p > NumProviders THEN <<>>
                 ELSE (IF p # chosen /\ p \in credentials THEN <<p>> ELSE <<>>) \o from(p + 1)
  IN  from(1)

\* vision_completion: the chosen provider is called when it has credentials;
\* when that gives no result (it raised, returned None, or was skipped) the
\* backups are called in turn until one gives a result
vision_completion(chosen, credentials, does) ==
  LET first == IF chosen \in credentials THEN <<chosen>> ELSE <<>>
      backups == Backups(chosen, credentials)
      hits == {k \in 1..Len(backups) : does[backups[k]] = "text"}
      stop == IF hits = {} THEN Len(backups)
              ELSE CHOOSE k \in hits : \A h \in hits : k <= h
  IN  IF first # <<>> /\ does[chosen] = "text"
        THEN [calls |-> first, returned |-> chosen, raised |-> ""]
      ELSE [calls |-> first \o SubSeq(backups, 1, stop),
            returned |-> IF hits = {} THEN 0 ELSE backups[stop],
            raised |-> IF hits = {} THEN "RuntimeError" ELSE ""]

VisionCompletion ==
  /\ vcOut = <<>>
  /\ vcOut' = vision_completion(vcIn.chosen, vcIn.credentials, vcIn.does)
  /\ UNCHANGED vcIn
  /\ UNCHANGED notVision

VisionNext == VisionCompletion

VisionSpec == VisionInit /\ [][VisionNext]_vars

\* C39: when the chosen provider has raised, the providers called after it are
\* the other providers with credentials in declaration order, each once, up to
\* and including the first that gives a result, which is returned; no provider
\* without credentials is called, the chosen one is not called again, and the
\* call raises when none of the providers called gave a result.
C39_FallbackOrder ==
  (vcOut # <<>> /\ vcIn.chosen \in vcIn.credentials /\ vcIn.does[vcIn.chosen] = "raises") =>
    LET calls == vcOut.calls
        others == {p \in Providers : p # vcIn.chosen /\ p \in vcIn.credentials}
        good == {p \in others : vcIn.does[p] = "text"}
    IN  /\ calls[1] = vcIn.chosen
        /\ \A k \in 2..Len(calls) : calls[k] \in others
        /\ \A j, k \in 2..Len(calls) : j < k => calls[j] < calls[k]
        /\ \A k \in 1..Len(calls) : calls[k] \in vcIn.credentials
        /\ IF good = {}
             THEN /\ vcOut.raised = "RuntimeError"
                  /\ vcOut.returned = 0
                  /\ {calls[k] : k \in 2..Len(calls)} = others
             ELSE /\ vcOut.raised = ""
                  /\ vcOut.returned \in good
                  /\ \A p \in good : vcOut.returned <= p
                  /\ calls[Len(calls)] = vcOut.returned
                  /\ {calls[k] : k \in 2..Len(calls)} = {p \in others : p <= vcOut.returned}

\* C39 witness: the chosen provider, the second in declaration order, raised;
\* the first provider raised too and the third gave the result.
C39_Witness ==
  /\ vcOut # <<>>
  /\ vcIn.chosen = 2
  /\ vcIn.credentials = Providers
  /\ vcIn.does = <<"raises", "raises", "text">>
  /\ vcOut.calls = <<2, 1, 3>>
  /\ vcOut.returned = 3


(***************************************************************************)
(* _build_image_jobs: the file-size filter                                 *)
(***************************************************************************)
MIN_IMAGE_BYTES == 10240
MIN_IMAGE_BYTES_WITH_CAPTION == 2048
MaxSizeSteps == 96

\* file sizes in bytes: 0 (also what _file_stats gives when the size cannot be
\* read), multiples of 128 up to 12 KiB, and the sizes next to the thresholds
FileSizes ==
  {128 * k : k \in 0..MaxSizeSteps}
    \cup {MIN_IMAGE_BYTES_WITH_CAPTION - 1, MIN_IMAGE_BYTES_WITH_CAPTION + 1,
          MIN_IMAGE_BYTES - 1, MIN_IMAGE_BYTES + 1}

SizeFilterInit ==
  /\ load = [tasks |-> 0, pipelines |-> {"default"}]
  /\ gpuCount = 1
  /\ env = NoEnv
  /\ SchedulerCreated
  /\ TwoStageAtRest
  /\ RunnerAtRest
  /\ CeleryAtRest
  /\ StoreAtRest
  /\ ChunksAtRest
  /\ UrlsAtRest
  /\ VisionAtRest
  /\ sfIn \in [file_size : FileSizes, has_caption : BOOLEAN]
  /\ sfOut = ""

\* min_bytes = MIN_IMAGE_BYTES_WITH_CAPTION if has_caption else MIN_IMAGE_BYTES
\* if file_size and file_size < min_bytes and not has_caption: continue
size_filter_skips(file_size, has_caption) ==
  LET min_bytes == IF has_caption THEN MIN_IMAGE_BYTES_WITH_CAPTION ELSE MIN_IMAGE_BYTES
  IN  file_size # 0 /\ file_size < min_bytes /\ ~has_caption

\* the loop body of _build_image_jobs reaches the file-size filter
SizeFilter ==
  /\ sfOut = ""
  /\ sfOut' = IF size_filter_skips(sfIn.file_size, sfIn.has_caption) THEN "skip" ELSE "pass"
  /\ UNCHANGED sfIn
  /\ UNCHANGED <<schedVars, tsVars, runVars, ctVars, osVars, ckVars, tsSlot, suVars, vcIn, vcOut>>

SizeFilterNext == SizeFilter

SizeFilterSpec == SizeFilterInit /\ [][SizeFilterNext]_vars

\* C40: the file-size filter rejects an image without caption or footnote
\* whose file is smaller than 10 KiB and an image with caption or footnote
\* whose file is smaller than 2 KiB; an image that passes has a file of at
\* least the threshold that applies to it.
C40_SizeThresholds ==
  sfOut # "" =>
    LET threshold == IF sfIn.has_caption THEN MIN_IMAGE_BYTES_WITH_CAPTION
                     ELSE MIN_IMAGE_BYTES
    IN  /\ sfIn.file_size < threshold => sfOut = "skip"
        /\ sfOut = "pass" => sfIn.file_size >= threshold

====
